---- MODULE Spec2Model ----
(***************************************************************************)
(* Verification model of the Social-Engine job workers.                    *)
(*                                                                         *)
(* The repository holds several variants of one background worker.  Each   *)
(* variant is modelled as its own state machine over the shared store:     *)
(*   sw_*    src/socialWorker.mjs            (table social_queue)          *)
(*   ga_*    handlers/generate_assets.ts, lines 351-474 (table social_jobs)*)
(*   loop_*  src/apps/social-jobs-worker/src/loop.ts  (table social_jobs)  *)
(*   p1_*    src/unnamed/part_001            (table social_jobs)           *)
(*   p4_*    src/unnamed/part_004 handler    (table social_outputs)        *)
(*   lp4_*   the same handler as loop.ts calls it                          *)
(*   p0_*    src/unnamed/part_000 generate_assets (table social_outputs)   *)
(*   p0j_*   src/unnamed/part_000 handleGenerateAssetsJob                  *)
(*   p3_*    src/unnamed/part_003 handler    (table social_outputs)        *)
(*   p5_*    src/unnamed/part_005 generate_assets                          *)
(*   p5h_*   src/unnamed/part_005 handleGenerateAssets                     *)
(*   hga_*   src/socialWorker.mjs handleGenerateAssets, lines 368-408      *)
(* Every store call (one awaited supabase request) is one atomic step.     *)
(***************************************************************************)
EXTENDS Integers, FiniteSets, Sequences, TLC

VARIABLES
    now,             \* Date.now(), in milliseconds
    ticks,           \* number of clock steps taken so far
    errs,            \* number of store calls that have failed so far
    mayCrash,        \* the worker processes that may die
    social_queue,    \* table social_queue: job id -> row
    social_jobs,     \* table social_jobs: job id -> row
    social_outputs,  \* table social_outputs: its unique index and its rows
    pc,              \* worker -> the statement it is about to execute
    job,             \* worker -> its local `job` (the claimed row as returned)
    cand,            \* worker -> the candidate id read by the claimer's select
    lastStuckSweep,  \* worker -> main()'s local lastStuckSweep
    tmp,             \* worker -> the handler's locals
    hist             \* history of what ran, read by the properties only

vars == <<now, ticks, errs, mayCrash, social_queue, social_jobs, social_outputs,
          pc, job, cand, lastStuckSweep, tmp, hist>>

NULL == "null"
\* the null of a timestamp column (timestamps are non-negative integers)
NULL_AT == 0 - 1

\* the value of a worker's `job` while it holds none
NoJob == [id |-> NULL]

Workers == {"w1", "w2", "w3"}
JobIds == {"j1", "j2"}

\* ---- bounds of the model ------------------------------------------------
MaxTicks == 2         \* clock steps per behaviour
MaxStoreErrors == 1   \* failed store calls per behaviour
MaxInserts == MaxTicks + 1  \* rows performAction can insert: one per requeue, plus one
StartTime == 1000000  \* Date.now() when the workers start

\* ---- program constants --------------------------------------------------
STUCK_AFTER_MS == 600000
BACKOFF_BASE_MS == 2500
BACKOFF_CAP_MS == 30000
SWEEP_EVERY_MS == 30000
MAX_ATTEMPTS == 3

Min(a, b) == IF a <= b THEN a ELSE b
Max(a, b) == IF a >= b THEN a ELSE b

(***************************************************************************)
(* JavaScript values as the handlers read them from a job: a value is a    *)
(* record whose field t is its typeof ("undefined", "null" for null,       *)
(* "string", "number", "object") and whose field s is the string it        *)
(* converts to.  An object also carries the fields the handlers read.      *)
(***************************************************************************)
JsUndefined == [t |-> "undefined", s |-> ""]
JsNull == [t |-> "null", s |-> ""]
JsString(s) == [t |-> "string", s |-> s]
\* a number other than 0 and NaN; s is String(v)
JsNumber(s) == [t |-> "number", s |-> s]

\* a nullable text column of a row
JsColumn(v) == IF v = NULL THEN JsNull ELSE JsString(v)

\* what the store keeps in a text column for the value: NULL for null and
\* undefined, else the value's string
JsText(v) == IF v.t \in {"undefined", "null"} THEN NULL ELSE v.s

\* a ?? b
JsCoalesce(a, b) == IF a.t \in {"undefined", "null"} THEN b ELSE a

\* the truthiness the operators ||, ! and if test
JsTruthy(v) ==
    CASE v.t = "string" -> v.s # ""
      [] v.t = "number" -> TRUE
      [] v.t = "object" -> TRUE
      [] OTHER -> FALSE

\* a || b
JsOr(a, b) == IF JsTruthy(a) THEN a ELSE b

\* a job, payload or meta object that is absent: every field read through ?.
\* is undefined
JsNoObject ==
    [t |-> "undefined", s |-> "", channel |-> JsUndefined,
     vertical_key |-> JsUndefined, activity_id |-> JsUndefined,
     org_id |-> JsUndefined]

\* the object literal {}
JsEmptyObject == [JsNoObject EXCEPT !.t = "object"]

\* a meta object { channel, vertical_key }
JsMeta(channel, vertical_key) ==
    [JsEmptyObject EXCEPT !.channel = channel, !.vertical_key = vertical_key]

\* String.prototype.trim over the blank " "
RECURSIVE trimStart(_)
trimStart(s) ==
    IF s # "" /\ Head(s) = " " THEN trimStart(Tail(s)) ELSE s

RECURSIVE trimEnd(_)
trimEnd(s) ==
    IF s # "" /\ SubSeq(s, Len(s), Len(s)) = " "
    THEN trimEnd(SubSeq(s, 1, Len(s) - 1))
    ELSE s

trim(s) == trimEnd(trimStart(s))

\* created_at of each job: distinct instants before the workers start
created_at(j) == IF j = "j1" THEN 1 ELSE 2

\* The outcomes of one store call: TRUE (answered) or FALSE (error).
StoreOk == IF errs < MaxStoreErrors THEN {TRUE, FALSE} ELSE {TRUE}

\* The clock moves past one stuck-after period (the T + 600001 of the
\* recovery scenario); shorter waits change no comparison the workers make.
Tick ==
    /\ ticks < MaxTicks
    /\ now' = now + STUCK_AFTER_MS + 1
    /\ ticks' = ticks + 1
    /\ UNCHANGED <<errs, mayCrash, social_queue, social_jobs, social_outputs,
                   pc, job, cand, lastStuckSweep, tmp, hist>>

\* A worker process dies wherever it stands; the store keeps what it wrote.
Crash(w) ==
    /\ w \in mayCrash
    /\ pc[w] \notin {"off", "crashed"}
    /\ pc' = [pc EXCEPT ![w] = "crashed"]
    /\ UNCHANGED <<now, ticks, errs, mayCrash, social_queue, social_jobs,
                   social_outputs, job, cand, lastStuckSweep, tmp, hist>>

(***************************************************************************)
(* The generate_assets handlers that write table social_outputs.           *)
(* social_outputs is a record: unique_index tells whether the deployment   *)
(* has the unique index on (activity_id, channel, vertical_key), and rows  *)
(* is the sequence of rows in insertion order (a row's id is its index).   *)
(* The field activity_id of a row is the activity of the row's key: the    *)
(* handlers of part_004, of part_000 lines 241-362 and of part_005 lines   *)
(* 239-387 write it to the column activity_id, the others only to          *)
(* meta.activity_id, which part_000 lines 754-760 selects by.              *)
(* While a handler runs, job[w] holds the locals it computed from its      *)
(* argument: activity_id, channel, vertical_key, and content, which stands *)
(* for what the model returns to this invocation.                          *)
(***************************************************************************)
MaxRuns == 2          \* handler invocations per behaviour

\* column activity_id of the job handed to a handler
Activities == {"a1", "", NULL}

\* a payload object { channel, vertical_key, meta }
out_payload(channel, vertical_key, meta) ==
    [t |-> "object", s |-> "", channel |-> channel,
     vertical_key |-> vertical_key, activity_id |-> JsUndefined,
     org_id |-> JsUndefined, meta |-> meta]

\* the payloads of the jobs handed to a handler
Payloads ==
    { out_payload(c[1], c[2], c[3]) :
      c \in { <<JsUndefined, JsUndefined, JsNoObject>>,
              <<JsString(" ig "), JsString("vet"), JsNoObject>>,
              <<JsString("fb"), JsString(""),
                JsMeta(JsString(" ig "), JsString(" vet "))>>,
              <<JsString("  "), JsUndefined, JsNoObject>>,
              <<JsString(""), JsNumber("7"), JsNoObject>>,
              <<JsNumber("7"), JsString("  "), JsNoObject>> } }

\* the rows of table crm_lead_activity, by id: the meta and the payload of
\* each activity
crm_lead_activity ==
    [a \in {"a1", "a2"} |->
       IF a = "a1"
       THEN [meta |-> JsMeta(JsString(" ig "), JsNumber("7")),
             payload |-> out_payload(JsString("fb"), JsString("vet"),
                                     JsNoObject)]
       ELSE [meta |-> JsNull, payload |-> JsNull]]

\* the job rows handed to a handler: a row of social_jobs has no column meta
out_job(a, p) ==
    [id |-> NULL, activity_id |-> a, org_id |-> "o1", meta |-> JsNoObject,
     payload |-> p]

OutChannels == {"multi", "ig", " ig ", "fb", "  ", "7"}
OutVerticals == {"general", "vet", " vet ", "7", "  "}
OutKeys == {"a1", ""} \X OutChannels \X OutVerticals

out_frame == <<now, ticks, mayCrash, social_queue, social_jobs, cand,
               lastStuckSweep>>

out_key(row) == <<row.activity_id, row.channel, row.vertical_key>>

\* ids of the rows a select on (activity_id, channel, vertical_key) matches
out_rowsOf(rows, k) == {i \in DOMAIN rows : out_key(rows[i]) = k}

\* an insert is rejected as a duplicate key when the unique index exists and
\* a row with the same key is there; a key with a null component equals no
\* key
out_duplicate(tbl, row) ==
    /\ tbl.unique_index
    /\ row.activity_id # NULL
    /\ row.channel # NULL
    /\ row.vertical_key # NULL
    /\ out_rowsOf(tbl.rows, out_key(row)) # {}

\* the locals of an invocation
out_locals(activity_id, channel, vertical_key, content) ==
    [id |-> NULL, activity_id |-> activity_id, channel |-> channel,
     vertical_key |-> vertical_key, content |-> content]

\* the handler returned { ok: true, ... } for job[w]
out_returnedOk(h, jb) ==
    IF jb.activity_id = NULL THEN h
    ELSE [h EXCEPT !.oks[out_key(jb)] = @ + 1,
                   !.lastOk[out_key(jb)] = jb.content]

out_hist0 ==
    [runs |-> 0, threw |-> FALSE, oks |-> [k \in OutKeys |-> 0],
     lastOk |-> [k \in OutKeys |-> 0]]

out_InitWith(failures, start) ==
    /\ now = StartTime
    /\ ticks = 0
    /\ errs = MaxStoreErrors - failures
    /\ mayCrash = {}
    /\ social_queue = <<>>
    /\ social_jobs = <<>>
    /\ \E u \in BOOLEAN : social_outputs = [unique_index |-> u, rows |-> <<>>]
    /\ pc = [w \in Workers |-> IF w \in {"w1", "w2"} THEN start ELSE "off"]
    /\ job = [w \in Workers |-> NoJob]
    /\ cand = [w \in Workers |-> NULL]
    /\ lastStuckSweep = [w \in Workers |-> 0]
    /\ tmp = [w \in Workers |-> NULL]
    /\ hist = out_hist0

(***************************************************************************)
(* src/unnamed/part_004: generate_assets, lines 290-395                    *)
(***************************************************************************)
\* lines 49-51: typeof v === "string" && v.trim() ? v.trim() : fallback
p4_pickString(v, fallback) ==
    IF v.t = "string" /\ trim(v.s) # "" THEN trim(v.s) ELSE fallback

\* lines 293-294 and 347: job.activity_id || job.activityId ||
\* payload.activity_id || payload.activityId, then activity_id ?? null
p4_activity_id(jb) ==
    JsText(JsOr(JsOr(JsOr(JsColumn(jb.activity_id), JsUndefined),
                     jb.payload.activity_id),
                JsUndefined))

\* line 303: job?.meta ?? payload?.meta ?? {}
p4_meta(jb) == JsCoalesce(JsCoalesce(jb.meta, jb.payload.meta), JsEmptyObject)

\* line 305
p4_channel(jb) ==
    p4_pickString(JsCoalesce(p4_meta(jb).channel, jb.payload.channel), "multi")

\* line 306
p4_vertical_key(jb) ==
    p4_pickString(JsCoalesce(p4_meta(jb).vertical_key, jb.payload.vertical_key),
                  "general")

\* lines 290-327: the caller hands a job to generate_assets(job)
p4_call(w) ==
    /\ pc[w] = "p4_idle"
    /\ hist.runs < MaxRuns
    /\ \E a \in Activities, p \in Payloads :
         job' = [job EXCEPT ![w] =
                   out_locals(p4_activity_id(out_job(a, p)),
                              p4_channel(out_job(a, p)),
                              p4_vertical_key(out_job(a, p)),
                              hist.runs + 1)]
    /\ hist' = [hist EXCEPT !.runs = @ + 1]
    /\ pc' = [pc EXCEPT ![w] = "p4_profile"]
    /\ UNCHANGED <<errs, social_outputs, tmp>>
    /\ UNCHANGED out_frame

\* fetchVerticalProfile, lines 186-206: the select of the job's vertical; an
\* error is only logged, and without a row the handler asks for "general"
p4_fetchVerticalProfile(w) ==
    /\ pc[w] = "p4_profile"
    /\ \E ok \in StoreOk, hit \in BOOLEAN :
         /\ errs' = IF ok THEN errs ELSE errs + 1
         /\ pc' = [pc EXCEPT ![w] = IF ok /\ hit THEN "p4_llm"
                                    ELSE "p4_profile_general"]
    /\ UNCHANGED <<social_outputs, job, tmp, hist>>
    /\ UNCHANGED out_frame

\* fetchVerticalProfile, lines 208-224: the select of vertical "general";
\* with or without a row, and on an error, the handler goes on
p4_fetchVerticalProfile_general(w) ==
    /\ pc[w] = "p4_profile_general"
    /\ \E ok \in StoreOk :
         errs' = IF ok THEN errs ELSE errs + 1
    /\ pc' = [pc EXCEPT ![w] = "p4_llm"]
    /\ UNCHANGED <<social_outputs, job, tmp, hist>>
    /\ UNCHANGED out_frame

\* callOpenAIJsonStrict, lines 64-175: throws without OPENAI_API_KEY, on an
\* HTTP error and on an answer of the wrong shape; a throw leaves the
\* handler before anything is written
p4_callOpenAIJsonStrict(w) ==
    /\ pc[w] = "p4_llm"
    /\ \E ok \in BOOLEAN :
         /\ pc' = [pc EXCEPT ![w] = IF ok THEN "p4_upsert" ELSE "p4_idle"]
         /\ hist' = [hist EXCEPT !.threw = @ \/ ~ok]
    /\ UNCHANGED <<errs, social_outputs, job, tmp>>
    /\ UNCHANGED out_frame

\* lines 338-364: insertRow
p4_insertRow(jb) ==
    [activity_id |-> jb.activity_id, channel |-> jb.channel,
     vertical_key |-> jb.vertical_key, status |-> "draft",
     content |-> jb.content]

\* mutant of p4_upsert_rows: a plain insert
p4_upsert_rows_insert(rows, row) == Append(rows, row)

\* .upsert(insertRow, { onConflict: "activity_id,channel,vertical_key" }),
\* lines 366-372: one statement; a row with the same key is replaced, and a
\* null activity_id conflicts with nothing
p4_upsert_rows(rows, row) ==
    LET hit == out_rowsOf(rows, out_key(row))
    IN  IF row.activity_id # NULL /\ hit # {}
        THEN [i \in DOMAIN rows |-> IF i \in hit THEN row ELSE rows[i]]
        ELSE Append(rows, row)

\* lines 366-395: the upsert, throw outErr, return { ok: true }; without the
\* unique index the store rejects the ON CONFLICT target
p4_upsert(w) ==
    /\ pc[w] = "p4_upsert"
    /\ \E ok \in StoreOk :
         IF ~ok \/ ~social_outputs.unique_index
         THEN /\ errs' = IF ok THEN errs ELSE errs + 1
              /\ UNCHANGED <<social_outputs, hist>>
         ELSE /\ errs' = errs
              /\ social_outputs' =
                   [social_outputs EXCEPT
                      !.rows = p4_upsert_rows(@, p4_insertRow(job[w]))]
              /\ hist' = out_returnedOk(hist, job[w])
    /\ pc' = [pc EXCEPT ![w] = "p4_idle"]
    /\ UNCHANGED <<job, tmp>>
    /\ UNCHANGED out_frame

p4_step(w) ==
    \/ p4_call(w)
    \/ p4_fetchVerticalProfile(w)
    \/ p4_fetchVerticalProfile_general(w)
    \/ p4_callOpenAIJsonStrict(w)
    \/ p4_upsert(w)

p4_Init == out_InitWith(MaxStoreErrors, "p4_idle")

p4_Next == \E w \in Workers : p4_step(w)

SpecP4 == p4_Init /\ [][p4_Next]_vars

\* C3: after the handler of part_004 has succeeded for a key with non-null
\* activity_id (in particular twice), social_outputs holds exactly one row
\* for the key and its content is that of the last successful run.
C3_UpsertKeepsOneRowWithLastContent ==
    \A k \in OutKeys :
        hist.oks[k] >= 1 =>
            /\ Cardinality(out_rowsOf(social_outputs.rows, k)) = 1
            /\ \A i \in out_rowsOf(social_outputs.rows, k) :
                 social_outputs.rows[i].content = hist.lastOk[k]

C3_Witness ==
    \E k \in OutKeys :
        /\ hist.oks[k] = 2
        /\ hist.lastOk[k] = 2
        /\ Len(social_outputs.rows) = 1
        /\ social_outputs.rows[1].content = 2
        /\ pc["w1"] = "p4_idle" /\ pc["w2"] = "p4_idle"

(***************************************************************************)
(* src/socialWorker.mjs                                                    *)
(***************************************************************************)
sw_frame == <<ticks, mayCrash, social_jobs>>

\* mutant of sw_backoffMsWith: the cap is left out
sw_backoffMsWith_uncapped(base, attempts) == attempts * base

\* backoffMs(attempts), lines 39-42, for a given BACKOFF_BASE_MS
sw_backoffMsWith(base, attempts) == Min(BACKOFF_CAP_MS, attempts * base)

sw_backoffMs(attempts) == sw_backoffMsWith(BACKOFF_BASE_MS, attempts)

\* mutant of sw_isStuck: the comparison with the cutoff is reversed
sw_isStuck_newer(row, t) ==
    /\ row.status = "processing"
    /\ row.claimed_at # NULL_AT
    /\ row.claimed_at > t - STUCK_AFTER_MS

\* the rows requeueStuck's update matches, lines 232-238
sw_isStuck(row, t) ==
    /\ row.status = "processing"
    /\ row.claimed_at # NULL_AT
    /\ row.claimed_at < t - STUCK_AFTER_MS

sw_requeueStuck(q, t) ==
    [j \in DOMAIN q |->
        IF sw_isStuck(q[j], t)
        THEN [q[j] EXCEPT !.status = "pending",
                          !.last_error = "requeued: stuck processing timeout"]
        ELSE q[j]]

\* select ... eq(status, pending) order(created_at asc) limit(1): the rows
\* the select may return (rows of equal created_at come in any order)
sw_oldestPending(q) ==
    LET P == {j \in DOMAIN q : q[j].status = "pending"}
    IN  {j \in P : \A k \in P : q[j].created_at <= q[k].created_at}

\* the positions of a worker between a successful claimOne and the status
\* write of its markDone/markFail
sw_executing ==
    {"sw_perform", "sw_generate", "sw_insert_output", "sw_enqueue",
     "sw_markDone", "sw_markFail"}

\* requeueStuck at time t takes a job from a worker that is still between
\* its claimOne and its markDone/markFail for it
sw_requeuesLive(q, t) ==
    \E w \in Workers :
        /\ pc[w] \in sw_executing
        /\ sw_isStuck(q[job[w].id], t)

\* main(), lines 330-334: the sweep at the head of an iteration
sw_main_sweep(w) ==
    /\ pc[w] = "sw_top"
    /\ IF now - lastStuckSweep[w] > SWEEP_EVERY_MS
       THEN /\ lastStuckSweep' = [lastStuckSweep EXCEPT ![w] = now]
            /\ \E ok \in StoreOk :
                 /\ social_queue' = IF ok THEN sw_requeueStuck(social_queue, now)
                                    ELSE social_queue
                 /\ errs' = IF ok THEN errs ELSE errs + 1
                 /\ hist' = [hist EXCEPT !.liveRequeue =
                               @ \/ (ok /\ sw_requeuesLive(social_queue, now))]
       ELSE UNCHANGED <<lastStuckSweep, social_queue, errs, hist>>
    /\ pc' = [pc EXCEPT ![w] = "sw_claim_select"]
    /\ UNCHANGED <<now, job, cand, social_outputs, tmp>>
    /\ UNCHANGED sw_frame

\* claimOne(), lines 248-257: the candidate select
sw_claimOne_select(w) ==
    /\ pc[w] = "sw_claim_select"
    /\ \E ok \in StoreOk :
         IF ~ok
         THEN /\ errs' = errs + 1
              /\ pc' = [pc EXCEPT ![w] = "sw_sleep_error"]
              /\ UNCHANGED cand
         ELSE /\ errs' = errs
              /\ IF sw_oldestPending(social_queue) = {}
                 THEN /\ pc' = [pc EXCEPT ![w] = "sw_sleep_idle"]
                      /\ UNCHANGED cand
                 ELSE /\ \E c \in sw_oldestPending(social_queue) :
                            cand' = [cand EXCEPT ![w] = c]
                      /\ pc' = [pc EXCEPT ![w] = "sw_claim_update"]
    /\ UNCHANGED <<now, social_queue, job, lastStuckSweep, hist,
                   social_outputs, tmp>>
    /\ UNCHANGED sw_frame

\* mutant of sw_claimable: the update is scoped by id alone
sw_claimable_byIdOnly(row) == TRUE

\* the predicate of claimOne's conditional update, lines 267-268
sw_claimable(row) == row.status = "pending"

\* claimOne(), lines 259-275: the conditional update and its returned rows
sw_claimOne_update(w) ==
    /\ pc[w] = "sw_claim_update"
    /\ \E ok \in StoreOk :
         IF ~ok
         THEN /\ errs' = errs + 1
              /\ pc' = [pc EXCEPT ![w] = "sw_sleep_error"]
              /\ UNCHANGED <<social_queue, job>>
         ELSE /\ errs' = errs
              /\ IF sw_claimable(social_queue[cand[w]])
                 THEN /\ social_queue' =
                           [social_queue EXCEPT ![cand[w]].status = "processing",
                                                ![cand[w]].claimed_at = now]
                      /\ job' = [job EXCEPT ![w] = social_queue'[cand[w]]]
                      /\ pc' = [pc EXCEPT ![w] = "sw_perform"]
                 ELSE /\ UNCHANGED <<social_queue, job>>
                      /\ pc' = [pc EXCEPT ![w] = "sw_sleep_idle"]
    /\ cand' = [cand EXCEPT ![w] = NULL]
    /\ UNCHANGED <<now, lastStuckSweep, hist, social_outputs, tmp>>
    /\ UNCHANGED sw_frame

\* performAction(job), lines 110-113: every action but generate_post is
\* skipped and reported as done
sw_skipped(jb) == jb.action # "generate_post"

\* performAction(job), line 115: fetchLeadContext(org_id, lead_id), lines
\* 44-56, called only for a job that names a lead; .single() gives an error
\* when table leads has no such row, and every error is thrown
sw_fetchLeadContext(w) ==
    /\ pc[w] = "sw_perform"
    /\ ~sw_skipped(job[w])
    /\ job[w].lead_id # NULL
    /\ \E ok \in StoreOk, found \in BOOLEAN :
         /\ errs' = IF ok THEN errs ELSE errs + 1
         /\ pc' = [pc EXCEPT ![w] = IF ok /\ found THEN "sw_generate"
                                    ELSE "sw_markFail"]
    /\ UNCHANGED <<now, social_queue, job, cand, lastStuckSweep, hist,
                   social_outputs, tmp>>
    /\ UNCHANGED sw_frame

\* performAction(job), lines 117-122: generateSocialKit(...), lines 58-104;
\* the completion request or the JSON.parse of its answer may throw
sw_generateSocialKit(w) ==
    /\ \/ pc[w] = "sw_generate"
       \/ /\ pc[w] = "sw_perform"
          /\ ~sw_skipped(job[w])
          /\ job[w].lead_id = NULL
    /\ \E threw \in BOOLEAN :
         pc' = [pc EXCEPT ![w] = IF threw THEN "sw_markFail"
                                  ELSE "sw_insert_output"]
    /\ UNCHANGED <<now, errs, social_queue, job, cand, lastStuckSweep, hist,
                   social_outputs, tmp>>
    /\ UNCHANGED sw_frame

\* the id the store gives the next row of social_outputs
sw_nextOutputId(outs) == Cardinality(outs) + 1

\* performAction(job), lines 124-130: the draft is inserted into
\* social_outputs and its id read back; an error of the insert is thrown
sw_insertOutput(w) ==
    /\ pc[w] = "sw_insert_output"
    /\ Cardinality(social_outputs) < MaxInserts
    /\ \E ok \in StoreOk :
         IF ok
         THEN /\ social_outputs' = social_outputs \cup
                     {[id |-> sw_nextOutputId(social_outputs)]}
              /\ tmp' = [tmp EXCEPT ![w] = sw_nextOutputId(social_outputs)]
              /\ errs' = errs
              /\ pc' = [pc EXCEPT ![w] = "sw_enqueue"]
         ELSE /\ errs' = errs + 1
              /\ pc' = [pc EXCEPT ![w] = "sw_markFail"]
              /\ UNCHANGED <<social_outputs, tmp>>
    /\ UNCHANGED <<now, social_queue, job, cand, lastStuckSweep, hist>>
    /\ UNCHANGED sw_frame

\* the id the store gives the next row inserted into social_queue
sw_nextQueueId(q) ==
    "q" \o ToString(Cardinality(DOMAIN q) - Cardinality(JobIds) + 1)

\* the row of lines 133-139 as the table stores it: the columns the insert
\* leaves out take the values claimOne and markFail expect of a new job
\* (status pending, no attempts, created now)
sw_assetsJob(id, jb, outputId, t) ==
    [id |-> id, status |-> "pending", claimed_at |-> NULL_AT, attempts |-> 0,
     created_at |-> t, last_error |-> NULL, action |-> "generate_assets",
     lead_id |-> jb.lead_id, payload |-> [outputId |-> outputId]]

\* performAction(job), lines 133-142: the generate_assets job is inserted
\* into social_queue; the result of the insert is not looked at
sw_enqueueAssets(w) ==
    /\ pc[w] = "sw_enqueue"
    /\ \E ok \in StoreOk :
         /\ social_queue' =
               IF ok
               THEN social_queue @@
                      (sw_nextQueueId(social_queue) :>
                         sw_assetsJob(sw_nextQueueId(social_queue), job[w],
                                      tmp[w], now))
               ELSE social_queue
         /\ errs' = IF ok THEN errs ELSE errs + 1
    /\ pc' = [pc EXCEPT ![w] = "sw_markDone"]
    /\ tmp' = [tmp EXCEPT ![w] = 0]
    /\ UNCHANGED <<now, job, cand, lastStuckSweep, hist, social_outputs>>
    /\ UNCHANGED sw_frame

\* the update of markDone(job), lines 278-283
sw_markDone_update(q, jb) == [q EXCEPT ![jb.id].status = "done"]

\* main(), lines 343-344: performAction(job) returned; markDone(job), lines
\* 278-291 (audit() returns at line 213: SYSTEM_USER_ID is not set)
sw_markDone(w) ==
    /\ \/ pc[w] = "sw_markDone"
       \/ pc[w] = "sw_perform" /\ sw_skipped(job[w])
    /\ \E ok \in StoreOk :
         /\ social_queue' = IF ok THEN sw_markDone_update(social_queue, job[w])
                            ELSE social_queue
         /\ errs' = IF ok THEN errs ELSE errs + 1
    /\ pc' = [pc EXCEPT ![w] = "sw_top"]
    /\ job' = [job EXCEPT ![w] = NoJob]
    /\ UNCHANGED <<now, cand, lastStuckSweep, hist, social_outputs, tmp>>
    /\ UNCHANGED sw_frame

\* mutant of sw_markFail_update: a failure consumes no attempt
sw_markFail_update_sameAttempts(q, jb) ==
    [q EXCEPT ![jb.id].status = "pending",
              ![jb.id].last_error = "error"]

\* the update of markFail(job, err), lines 294-307
sw_markFail_update(q, jb) ==
    LET attempts == jb.attempts + 1
        failed == attempts >= MAX_ATTEMPTS
    IN  [q EXCEPT ![jb.id].status = IF failed THEN "failed" ELSE "pending",
                  ![jb.id].attempts = attempts,
                  ![jb.id].last_error = "error"]

\* main(), lines 345-347: performAction(job) threw; markFail(job, err),
\* lines 293-321 (audit() returns at line 213: SYSTEM_USER_ID is not set)
sw_markFail(w) ==
    /\ pc[w] = "sw_markFail"
    /\ \E ok \in StoreOk :
         /\ social_queue' = IF ok THEN sw_markFail_update(social_queue, job[w])
                            ELSE social_queue
         /\ errs' = IF ok THEN errs ELSE errs + 1
         /\ hist' = IF ok
                    THEN [hist EXCEPT !.fails[job[w].id] =
                                         Min(@ + 1, MAX_ATTEMPTS + 1)]
                    ELSE hist
    /\ LET attempts == job[w].attempts + 1
           failed == attempts >= MAX_ATTEMPTS
       IN  pc' = [pc EXCEPT ![w] =
                    IF ~failed /\ sw_backoffMs(attempts) > 0
                    THEN "sw_backoff" ELSE "sw_top"]
    /\ job' = [job EXCEPT ![w] = NoJob]
    /\ UNCHANGED <<now, cand, lastStuckSweep, social_outputs, tmp>>
    /\ UNCHANGED sw_frame

\* sleep(SLEEP_IDLE_MS), sleep(SLEEP_ERROR_MS) or sleep(wait) returns
sw_sleep(w) ==
    /\ pc[w] \in {"sw_sleep_idle", "sw_sleep_error", "sw_backoff"}
    /\ pc' = [pc EXCEPT ![w] = "sw_top"]
    /\ UNCHANGED <<now, errs, social_queue, job, cand, lastStuckSweep, hist,
                   social_outputs, tmp>>
    /\ UNCHANGED sw_frame

sw_step(w) ==
    \/ sw_main_sweep(w)
    \/ sw_claimOne_select(w)
    \/ sw_claimOne_update(w)
    \/ sw_fetchLeadContext(w)
    \/ sw_generateSocialKit(w)
    \/ sw_insertOutput(w)
    \/ sw_enqueueAssets(w)
    \/ sw_markDone(w)
    \/ sw_markFail(w)
    \/ sw_sleep(w)

\* the jobs the table holds when the workers start: j1 is a generate_post
\* job and j2 a job of another action
sw_row(j, lead) ==
    [id |-> j, status |-> "pending", claimed_at |-> NULL_AT, attempts |-> 0,
     created_at |-> created_at(j), last_error |-> NULL,
     action |-> IF j = "j1" THEN "generate_post" ELSE "generate_assets",
     lead_id |-> lead,
     payload |-> [outputId |-> 0]]

\* the lead_id of a job: none, or a row of the table leads
sw_Leads == {NULL, "l1"}

sw_Workers == {"w1", "w2"}

\* every id a row of social_queue can have
sw_QueueIds == JobIds \cup {"q" \o ToString(n) : n \in 1..MaxInserts}

\* The workers start with `steps` clock steps and `failures` store errors
\* still to come.
sw_InitWith(crashable, failures, steps) ==
    /\ now = StartTime
    /\ ticks = MaxTicks - steps
    /\ errs = MaxStoreErrors - failures
    /\ mayCrash = crashable
    /\ \E lead \in sw_Leads :
         social_queue = [j \in JobIds |-> sw_row(j, lead)]
    /\ social_jobs = <<>>
    /\ social_outputs = {}
    /\ pc = [w \in Workers |-> IF w \in sw_Workers THEN "sw_top" ELSE "off"]
    /\ job = [w \in Workers |-> NoJob]
    /\ cand = [w \in Workers |-> NULL]
    /\ lastStuckSweep = [w \in Workers |-> 0]
    /\ tmp = [w \in Workers |-> 0]
    /\ hist = [fails |-> [j \in sw_QueueIds |-> 0], liveRequeue |-> FALSE]

sw_Init == sw_InitWith({"w1"}, MaxStoreErrors, 1)

sw_Next ==
    \/ \E w \in Workers : sw_step(w)
    \/ \E w \in Workers : Crash(w)
    \/ Tick

SpecSW == sw_Init /\ [][sw_Next]_vars

\* The store answers every call, w1 may die, and w2's loop keeps running:
\* each awaited call of w2 returns and its loop takes the next step.
sw_InitLive == sw_InitWith({"w1"}, 0, 1)

FairSW == sw_InitLive /\ [][sw_Next]_vars /\ WF_vars(sw_step("w2"))

\* C8 (as claimed): in socialWorker.mjs, once a job's status is done or
\* failed, no later step of any worker (claimOne, markDone, markFail,
\* requeueStuck) changes its status.
C8_TerminalStatusIsFinal ==
    [][\A j \in DOMAIN social_queue :
          social_queue[j].status \in {"done", "failed"} =>
             social_queue'[j].status = social_queue[j].status]_vars

\* C6: a job that w1 claimed at T and abandoned is returned to pending by the
\* requeueStuck of a sweep run after T + STUCK_AFTER_MS, the claimOne that
\* follows takes the oldest pending job and holds it only after its own
\* conditional update, and while w2's loop runs a stale processing job
\* whose sweep is due eventually leaves processing.
C6_StuckJobRecovered ==
    /\ [][\A w \in Workers, j \in DOMAIN social_queue :
            (/\ pc[w] = "sw_top" /\ pc'[w] = "sw_claim_select"
             /\ now - lastStuckSweep[w] > SWEEP_EVERY_MS
             /\ social_queue[j].status = "processing"
             /\ social_queue[j].claimed_at + STUCK_AFTER_MS < now)
            => social_queue'[j].status = "pending"]_vars
    /\ [][\A w \in Workers :
            (/\ pc[w] = "sw_claim_select" /\ pc'[w] = "sw_claim_update")
            => /\ social_queue[cand'[w]].status = "pending"
               /\ \A k \in DOMAIN social_queue :
                     social_queue[k].status = "pending" =>
                       social_queue[cand'[w]].created_at
                          <= social_queue[k].created_at]_vars
    /\ [][\A w \in Workers :
            (/\ pc[w] = "sw_claim_update" /\ pc'[w] = "sw_perform")
            => /\ job'[w].id = cand[w]
               /\ social_queue[cand[w]].status = "pending"
               /\ social_queue'[cand[w]].status = "processing"
               /\ social_queue'[cand[w]].claimed_at = now]_vars
    /\ \A j \in sw_QueueIds :
          (/\ j \in DOMAIN social_queue
           /\ social_queue[j].status = "processing"
           /\ social_queue[j].claimed_at + STUCK_AFTER_MS < now
           /\ now - lastStuckSweep["w2"] > SWEEP_EVERY_MS)
          ~> (j \in DOMAIN social_queue
              /\ social_queue[j].status # "processing")

\* C6 witness: w1 died holding a job it claimed at T, and w2 now holds the
\* same job, claimed at T + STUCK_AFTER_MS + 1.
C6_Witness ==
    \E j \in JobIds :
        /\ pc["w1"] = "crashed" /\ job["w1"].id = j
        /\ pc["w2"] = "sw_perform" /\ job["w2"].id = j
        /\ job["w2"].claimed_at = job["w1"].claimed_at + STUCK_AFTER_MS + 1
        /\ social_queue[j].status = "processing"


\* No worker dies and the store answers every call; the clock may still pass
\* the stuck-after period while a worker is inside performAction.
sw_InitNoCrash == sw_InitWith({}, 0, 1)

sw_NextNoCrash ==
    \/ \E w \in Workers : sw_step(w)
    \/ Tick

\* every worker's loop keeps running: each awaited call, performAction
\* included, returns
FairSWNoCrash ==
    /\ sw_InitNoCrash
    /\ [][sw_NextNoCrash]_vars
    /\ \A w \in sw_Workers : WF_vars(sw_step(w))

\* C33: in socialWorker.mjs, with no crashes and every call returning, every
\* pending job eventually reaches status done or failed, whatever the
\* outcomes of performAction (the oldest job may fail on every execution).
C33_PendingJobsAreFinalized ==
    \A j \in sw_QueueIds :
        (j \in DOMAIN social_queue /\ social_queue[j].status = "pending")
            ~> (j \in DOMAIN social_queue
                /\ social_queue[j].status \in {"done", "failed"})

C33_Witness ==
    /\ social_queue["j1"].status = "failed"
    /\ social_queue["j1"].attempts = MAX_ATTEMPTS
    /\ hist.fails["j1"] = MAX_ATTEMPTS
    /\ social_queue["j2"].status = "done"
    /\ social_queue["j2"].attempts = 0
    /\ \A w \in sw_Workers : pc[w] = "sw_sleep_idle"

\* C11 (as claimed): in socialWorker.mjs the number of failures markFail has
\* finalised for a job never exceeds MAX_ATTEMPTS.
C11_FailuresWithinBudget ==
    \A j \in sw_QueueIds : hist.fails[j] <= MAX_ATTEMPTS

\* the live workers between a successful claimOne and the status write of
\* markDone/markFail for job j
sw_holders(j) == {w \in Workers : pc[w] \in sw_executing /\ job[w].id = j}

\* C12: as long as no requeueStuck has taken a job from a worker that was
\* still executing it, no two workers are at the same time between a
\* successful claimOne and their markDone/markFail for the same job id.
C12_OneHolderPerJob ==
    ~hist.liveRequeue =>
        \A j \in DOMAIN social_queue : Cardinality(sw_holders(j)) <= 1

C12_Witness ==
    /\ ~hist.liveRequeue
    /\ pc["w1"] = "crashed" /\ job["w1"].id = "j1"
    /\ sw_holders("j1") = {"w2"}
    /\ social_queue["j1"].last_error = "requeued: stuck processing timeout"
    /\ social_queue["j1"].status = "processing"
    /\ social_queue["j1"].claimed_at > StartTime

(***************************************************************************)
(* src/apps/social-jobs-worker/src/handlers/generate_assets.ts,            *)
(* lines 351-474: unlockStuckJobs, lockNextJob, markDone, markFailed,      *)
(* processJob, runLoop; with handleGenerateAssets of lines 74-244.         *)
(* tmp[w] is OPENAI_API_KEY in the environment of worker w's process.      *)
(***************************************************************************)
ga_frame == <<ticks, mayCrash, social_queue, lastStuckSweep, tmp, hist>>

\* mutant of ga_isStuck: every running row matches, whatever its lock's age
ga_isStuck_anyAge(row, t) == row.status = "running"

\* the rows unlockStuckJobs' update matches
ga_isStuck(row, t) ==
    /\ row.status = "running"
    /\ row.locked_at # NULL_AT
    /\ row.locked_at < t - STUCK_AFTER_MS

ga_unlockStuckJobs_update(tbl, t) ==
    [j \in DOMAIN tbl |->
        IF ga_isStuck(tbl[j], t)
        THEN [tbl[j] EXCEPT !.status = "queued", !.locked_at = NULL_AT,
                            !.locked_by = NULL]
        ELSE tbl[j]]

\* runLoop(), line 454: the one unlockStuckJobs() call, before the loop
ga_unlockStuckJobs(w) ==
    /\ pc[w] = "ga_boot"
    /\ \E ok \in StoreOk :
         /\ social_jobs' = IF ok THEN ga_unlockStuckJobs_update(social_jobs, now)
                           ELSE social_jobs
         /\ errs' = IF ok THEN errs ELSE errs + 1
    /\ pc' = [pc EXCEPT ![w] = "ga_lock_select"]
    /\ UNCHANGED <<now, job, cand>>
    /\ UNCHANGED social_outputs
    /\ UNCHANGED ga_frame

\* mutant of ga_candidate: the newest queued row
ga_candidate_newest(tbl) ==
    LET Q == {j \in DOMAIN tbl : tbl[j].status = "queued"}
    IN  IF Q = {} THEN NULL
        ELSE CHOOSE j \in Q : \A k \in Q : tbl[j].created_at >= tbl[k].created_at

\* select ... eq(status, queued) order(created_at asc) limit(1)
ga_candidate(tbl) ==
    LET Q == {j \in DOMAIN tbl : tbl[j].status = "queued"}
    IN  IF Q = {} THEN NULL
        ELSE CHOOSE j \in Q : \A k \in Q : tbl[j].created_at <= tbl[k].created_at

\* lockNextJob(), lines 383-391: the candidate select; a store error leaves
\* `candidate` undefined and the call returns null
ga_lockNextJob_select(w) ==
    /\ pc[w] = "ga_lock_select"
    /\ \E ok \in StoreOk :
         LET c == IF ok THEN ga_candidate(social_jobs) ELSE NULL
         IN  /\ errs' = IF ok THEN errs ELSE errs + 1
             /\ cand' = [cand EXCEPT ![w] = c]
             /\ pc' = [pc EXCEPT ![w] =
                         IF c = NULL THEN "ga_sleep_idle" ELSE "ga_lock_update"]
    /\ UNCHANGED <<now, social_jobs, job>>
    /\ UNCHANGED social_outputs
    /\ UNCHANGED ga_frame

\* mutant of ga_lockable: the update is scoped by id alone
ga_lockable_byIdOnly(row) == TRUE

\* the predicate of lockNextJob's conditional update, lines 397-399
ga_lockable(row) == row.status = "queued" /\ row.locked_at = NULL_AT

\* lockNextJob(), lines 394-403: the conditional update and the row returned
ga_lockNextJob_update(w) ==
    /\ pc[w] = "ga_lock_update"
    /\ \E ok \in StoreOk :
         /\ errs' = IF ok THEN errs ELSE errs + 1
         /\ IF ok /\ ga_lockable(social_jobs[cand[w]])
            THEN /\ social_jobs' =
                      [social_jobs EXCEPT ![cand[w]].status = "running",
                                          ![cand[w]].locked_at = now,
                                          ![cand[w]].locked_by = w]
                 /\ job' = [job EXCEPT ![w] = social_jobs'[cand[w]]]
                 /\ pc' = [pc EXCEPT ![w] = "ga_process"]
            ELSE /\ UNCHANGED <<social_jobs, job>>
                 /\ pc' = [pc EXCEPT ![w] = "ga_sleep_idle"]
    /\ cand' = [cand EXCEPT ![w] = NULL]
    /\ UNCHANGED now
    /\ UNCHANGED social_outputs
    /\ UNCHANGED ga_frame

\* column payload of a row: the producer's { channel, vertical_key }, the
\* fields markFailed adds (last_error, attempts, terminal), and result, which
\* tells that markDone has put the handler's result in its place
ga_payload(channel, vertical_key, result) ==
    [t |-> "object", s |-> "", channel |-> channel,
     vertical_key |-> vertical_key, activity_id |-> JsUndefined,
     org_id |-> JsUndefined, meta |-> JsNoObject, last_error |-> NULL,
     attempts |-> 0, terminal |-> FALSE, result |-> result]

\* lines 11-16: the first argument that is a string with a non-empty trim,
\* trimmed, else ""
RECURSIVE ga_pickString(_)
ga_pickString(vals) ==
    IF vals = <<>> THEN ""
    ELSE IF Head(vals).t = "string" /\ trim(Head(vals).s) # ""
         THEN trim(Head(vals).s)
         ELSE ga_pickString(Tail(vals))

\* line 79: job?.meta ?? payload?.meta ?? {}; a row has no column meta
ga_meta(jb) ==
    JsCoalesce(JsCoalesce(JsNoObject, jb.payload.meta), JsEmptyObject)

\* line 82: pickString(meta?.channel ?? payload?.channel, job?.channel,
\* "multi"); a row has no column channel
ga_channel(jb) ==
    ga_pickString(<<JsCoalesce(ga_meta(jb).channel, jb.payload.channel),
                    JsUndefined, JsString("multi")>>)

\* line 83
ga_vertical_key(jb) ==
    ga_pickString(<<JsCoalesce(ga_meta(jb).vertical_key,
                               jb.payload.vertical_key),
                    JsString("general")>>)

\* line 84: pickString(job?.activity_id, meta?.activity_id,
\* payload?.activity_id)
ga_activity_id(jb) ==
    ga_pickString(<<JsColumn(jb.activity_id), ga_meta(jb).activity_id,
                    jb.payload.activity_id>>)

\* processJob(), lines 444-449, entering handleGenerateAssets, lines 74-101:
\* an unknown job_type throws (line 449); without OPENAI_API_KEY line 88
\* throws and without an activity_id line 89 throws, both before any store
\* call; otherwise updateJob marks the row running, by id alone
ga_processJob(w) ==
    /\ pc[w] = "ga_process"
    /\ IF \/ job[w].job_type # "generate_assets"
          \/ tmp[w] \in {NULL, ""}
          \/ ga_activity_id(job[w]) = ""
       THEN /\ pc' = [pc EXCEPT ![w] = "ga_markFailed"]
            /\ UNCHANGED <<social_jobs, errs>>
       ELSE \E ok \in StoreOk :
              /\ errs' = IF ok THEN errs ELSE errs + 1
              /\ social_jobs' =
                   IF ok THEN [social_jobs EXCEPT ![job[w].id].status = "running"]
                   ELSE social_jobs
              /\ pc' = [pc EXCEPT ![w] =
                          IF ok THEN "ga_getActivity" ELSE "ga_markFailed"]
    /\ UNCHANGED <<now, social_outputs, job, cand>>
    /\ UNCHANGED ga_frame

\* getActivity, lines 47-56, called at line 104: .single() gives an error
\* when the activity is not there, and every error throws
ga_getActivity(w) ==
    /\ pc[w] = "ga_getActivity"
    /\ \E ok \in StoreOk :
         /\ errs' = IF ok THEN errs ELSE errs + 1
         /\ pc' = [pc EXCEPT ![w] =
                     IF ok /\ ga_activity_id(job[w]) \in DOMAIN crm_lead_activity
                     THEN "ga_getVerticalProfile" ELSE "ga_markFailed"]
    /\ UNCHANGED <<now, social_jobs, social_outputs, job, cand>>
    /\ UNCHANGED ga_frame

\* getVerticalProfile, lines 36-45, called at line 123: an error throws, no
\* row is no error
ga_getVerticalProfile(w) ==
    /\ pc[w] = "ga_getVerticalProfile"
    /\ \E ok \in StoreOk :
         /\ errs' = IF ok THEN errs ELSE errs + 1
         /\ pc' = [pc EXCEPT ![w] = IF ok THEN "ga_responses_create"
                                    ELSE "ga_markFailed"]
    /\ UNCHANGED <<now, social_jobs, social_outputs, job, cand>>
    /\ UNCHANGED ga_frame

\* lines 181-200: openai.responses.create throws on a failed request, and an
\* answer that is not JSON throws at line 199
ga_responses_create(w) ==
    /\ pc[w] = "ga_responses_create"
    /\ \E threw \in BOOLEAN :
         pc' = [pc EXCEPT ![w] = IF threw THEN "ga_markFailed"
                                 ELSE "ga_insertOutput"]
    /\ UNCHANGED <<now, errs, social_jobs, social_outputs, job, cand>>
    /\ UNCHANGED ga_frame

\* lines 213-231: the row handed to insertOutput; the activity id is kept in
\* meta.activity_id, the field activity_id here, and content stands for the
\* generated texts of this execution
ga_outputRow(jb) ==
    [activity_id |-> ga_activity_id(jb), channel |-> ga_channel(jb),
     vertical_key |-> ga_vertical_key(jb), status |-> "draft",
     content |-> jb.attempts + 1]

\* insertOutput, lines 58-67, called at line 213: a plain insert; an error
\* (a duplicate key under the unique index is one) throws
ga_insertOutput(w) ==
    /\ pc[w] = "ga_insertOutput"
    /\ \E ok \in StoreOk :
         IF ~ok \/ out_duplicate(social_outputs, ga_outputRow(job[w]))
         THEN /\ errs' = IF ok THEN errs ELSE errs + 1
              /\ pc' = [pc EXCEPT ![w] = "ga_markFailed"]
              /\ UNCHANGED social_outputs
         ELSE /\ errs' = errs
              /\ social_outputs' =
                   [social_outputs EXCEPT
                      !.rows = Append(@, ga_outputRow(job[w]))]
              /\ pc' = [pc EXCEPT ![w] = "ga_updateJob_done"]
    /\ UNCHANGED <<now, social_jobs, job, cand>>
    /\ UNCHANGED ga_frame

\* lines 233-243: updateJob marks the row done, by id alone, and the
\* handler returns { ok: true }; an error of the update throws
ga_updateJob_done(w) ==
    /\ pc[w] = "ga_updateJob_done"
    /\ \E ok \in StoreOk :
         /\ errs' = IF ok THEN errs ELSE errs + 1
         /\ social_jobs' =
              IF ok THEN [social_jobs EXCEPT ![job[w].id].status = "done"]
              ELSE social_jobs
         /\ pc' = [pc EXCEPT ![w] = IF ok THEN "ga_markDone"
                                    ELSE "ga_markFailed"]
    /\ UNCHANGED <<now, social_outputs, job, cand>>
    /\ UNCHANGED ga_frame

\* the payload markDone stores: the handler's result { ok, output_id }
ga_result == ga_payload(JsUndefined, JsUndefined, TRUE)

\* the update of markDone(jobId, result), lines 406-417
ga_markDone_update(tbl, jb) ==
    [tbl EXCEPT ![jb.id].status = "done",
                ![jb.id].payload = ga_result,
                ![jb.id].locked_at = NULL_AT,
                ![jb.id].locked_by = NULL]

ga_markDone(w) ==
    /\ pc[w] = "ga_markDone"
    /\ \E ok \in StoreOk :
         /\ social_jobs' = IF ok THEN ga_markDone_update(social_jobs, job[w])
                           ELSE social_jobs
         /\ errs' = IF ok THEN errs ELSE errs + 1
    /\ pc' = [pc EXCEPT ![w] = "ga_lock_select"]
    /\ job' = [job EXCEPT ![w] = NoJob]
    /\ UNCHANGED <<now, cand>>
    /\ UNCHANGED social_outputs
    /\ UNCHANGED ga_frame

\* the update of markFailed(job, errMsg), lines 419-441
ga_markFailed_update(tbl, jb) ==
    LET attempts == jb.attempts + 1
        terminal == attempts >= jb.max_attempts
    IN  [tbl EXCEPT ![jb.id].attempts = attempts,
                    ![jb.id].status = IF terminal THEN "failed" ELSE "queued",
                    ![jb.id].locked_at = NULL_AT,
                    ![jb.id].locked_by = NULL,
                    ![jb.id].payload = [jb.payload EXCEPT
                                           !.last_error = "error",
                                           !.attempts = attempts,
                                           !.terminal = terminal]]

ga_markFailed(w) ==
    /\ pc[w] = "ga_markFailed"
    /\ \E ok \in StoreOk :
         /\ social_jobs' = IF ok THEN ga_markFailed_update(social_jobs, job[w])
                           ELSE social_jobs
         /\ errs' = IF ok THEN errs ELSE errs + 1
    /\ pc' = [pc EXCEPT ![w] = "ga_lock_select"]
    /\ job' = [job EXCEPT ![w] = NoJob]
    /\ UNCHANGED <<now, cand>>
    /\ UNCHANGED social_outputs
    /\ UNCHANGED ga_frame

\* sleep(SLEEP_IDLE_MS) returns, lines 459-462
ga_sleep(w) ==
    /\ pc[w] = "ga_sleep_idle"
    /\ pc' = [pc EXCEPT ![w] = "ga_lock_select"]
    /\ UNCHANGED <<now, errs, social_jobs, job, cand>>
    /\ UNCHANGED social_outputs
    /\ UNCHANGED ga_frame

ga_step(w) ==
    \/ ga_unlockStuckJobs(w)
    \/ ga_lockNextJob_select(w)
    \/ ga_lockNextJob_update(w)
    \/ ga_processJob(w)
    \/ ga_getActivity(w)
    \/ ga_getVerticalProfile(w)
    \/ ga_responses_create(w)
    \/ ga_insertOutput(w)
    \/ ga_updateJob_done(w)
    \/ ga_markDone(w)
    \/ ga_markFailed(w)
    \/ ga_sleep(w)

\* a row of social_jobs as the producer creates it: queued, attempts 0
ga_row(j, type, max, activity) ==
    [id |-> j, job_type |-> type, status |-> "queued", attempts |-> 0,
     max_attempts |-> max, locked_at |-> NULL_AT, locked_by |-> NULL,
     created_at |-> created_at(j), activity_id |-> activity,
     payload |-> IF j = "j1"
                 THEN ga_payload(JsString(" ig "), JsString("vet"), FALSE)
                 ELSE ga_payload(JsUndefined, JsUndefined, FALSE)]

\* job_type and activity_id of job j2
ga_Kinds == {<<"generate_assets", "a2">>, <<"generate_assets", "a9">>,
             <<"generate_assets", NULL>>, <<"other", "a2">>}

\* OPENAI_API_KEY of a process: unset, or a key
ga_Keys == {NULL, "sk-1"}

ga_Workers == {"w1", "w2"}

ga_InitWith(crashable, failures, start) ==
    /\ now = StartTime
    /\ ticks = 0
    /\ errs = MaxStoreErrors - failures
    /\ mayCrash = crashable
    /\ social_queue = <<>>
    /\ \E k \in ga_Kinds :
         social_jobs = [j \in JobIds |->
                          IF j = "j1" THEN ga_row(j, "generate_assets", 2, "a1")
                          ELSE ga_row(j, k[1], 1, k[2])]
    /\ \E u \in BOOLEAN : social_outputs = [unique_index |-> u, rows |-> <<>>]
    /\ pc = [w \in Workers |-> IF w \in ga_Workers THEN start ELSE "off"]
    /\ job = [w \in Workers |-> NoJob]
    /\ cand = [w \in Workers |-> NULL]
    /\ lastStuckSweep = [w \in Workers |-> 0]
    /\ \E key \in ga_Keys :
         tmp = [w \in Workers |-> IF w = "w2" THEN key ELSE "sk-1"]
    /\ hist = <<>>

ga_Init == ga_InitWith({"w1"}, MaxStoreErrors, "ga_boot")

ga_Next ==
    \/ \E w \in Workers : ga_step(w)
    \/ \E w \in Workers : Crash(w)
    \/ Tick

SpecGA == ga_Init /\ [][ga_Next]_vars

\* The store answers every call, w1 may die, and w2's loop keeps running.
FairGA == ga_InitWith({"w1"}, 0, "ga_boot") /\ [][ga_Next]_vars
          /\ WF_vars(ga_step("w2"))

\* C5 (as claimed): in the worker of generate_assets.ts a job left running
\* by the dead worker w1, with locked_at older than STUCK_AFTER_MS, is
\* eventually taken out of running while w2, already in its loop, keeps
\* iterating.
C5_StuckJobLeavesRunning ==
    \A j \in JobIds :
        (/\ pc["w1"] = "crashed" /\ pc["w2"] # "ga_boot"
         /\ social_jobs[j].status = "running"
         /\ social_jobs[j].locked_by = "w1"
         /\ social_jobs[j].locked_at + STUCK_AFTER_MS < now)
        ~> (social_jobs[j].status # "running")

\* C23: when the store fails during lockNextJob's candidate select or
\* conditional update, the call does not end as "no job available" followed
\* by the idle sleep: the error reaches runLoop, which sleeps SLEEP_ERROR_MS.
C23_LockErrorIsNotIdle ==
    [][\A w \in ga_Workers :
         (/\ pc[w] \in {"ga_lock_select", "ga_lock_update"}
          /\ pc'[w] # pc[w]
          /\ errs' = errs + 1)
         => pc'[w] # "ga_sleep_idle"]_vars

\* C24: the stored attempts of a job never decreases: no step writes a
\* value smaller than the one stored.
C24_AttemptsNeverDecrease ==
    [][\A j \in JobIds :
         social_jobs'[j].attempts >= social_jobs[j].attempts]_vars

\* C25: a call of lockNextJob whose conditional update matches no row,
\* because the candidate was claimed by another worker after the select,
\* returns null (the worker goes to the idle sleep holding no job) and
\* changes no row of social_jobs, whatever other jobs are queued.
C25_LoserReturnsNullAndChangesNothing ==
    [][\A w \in ga_Workers :
         (/\ pc[w] = "ga_lock_update"
          /\ pc'[w] # pc[w]
          /\ \/ social_jobs[cand[w]].status # "queued"
             \/ social_jobs[cand[w]].locked_at # NULL_AT)
         => /\ pc'[w] \in {"ga_sleep_idle", "crashed"}
            /\ job'[w] = NoJob
            /\ social_jobs' = social_jobs]_vars

C25_Witness ==
    /\ errs = 0 /\ ticks = 0
    /\ pc["w1"] = "ga_process" /\ job["w1"].id = "j1"
    /\ social_jobs["j1"].locked_by = "w1"
    /\ pc["w2"] = "ga_sleep_idle" /\ job["w2"] = NoJob
    /\ social_jobs["j2"] = ga_row("j2", social_jobs["j2"].job_type, 1,
                                  social_jobs["j2"].activity_id)

\* C27: unlockStuckJobs changes exactly the rows that are running with
\* locked_at older than now - STUCK_AFTER_MS: each becomes queued with
\* locked_by and locked_at null and every other field (attempts, payload,
\* created_at) as before; every other row is left as it was.
C27_UnlockChangesExactlyStuckRows ==
    [][\A w \in ga_Workers :
         (pc[w] = "ga_boot" /\ pc'[w] = "ga_lock_select" /\ errs' = errs)
         => \A j \in JobIds :
              social_jobs'[j] =
                 IF /\ social_jobs[j].status = "running"
                    /\ social_jobs[j].locked_at # NULL_AT
                    /\ social_jobs[j].locked_at < now - STUCK_AFTER_MS
                 THEN [social_jobs[j] EXCEPT !.status = "queued",
                                             !.locked_by = NULL,
                                             !.locked_at = NULL_AT]
                 ELSE social_jobs[j]]_vars

C27_Witness ==
    /\ pc["w1"] \in {"ga_process", "ga_getActivity", "crashed"}
    /\ job["w1"].id = "j1"
    /\ ticks = 1
    /\ pc["w2"] = "ga_lock_select"
    /\ social_jobs["j1"] = ga_row("j1", "generate_assets", 2, "a1")
    /\ social_jobs["j2"] = ga_row("j2", social_jobs["j2"].job_type, 1,
                                  social_jobs["j2"].activity_id)

\* C28: the candidate lockNextJob selects has the smallest created_at of all
\* queued rows at the moment of the select, and no step changes a row's
\* created_at: a failed job that was re-queued is selected before every
\* queued job created after it.
C28_OldestQueuedFirst ==
    /\ [][\A w \in ga_Workers :
            (pc[w] = "ga_lock_select" /\ pc'[w] = "ga_lock_update")
            => /\ social_jobs[cand'[w]].status = "queued"
               /\ \A k \in JobIds :
                    social_jobs[k].status = "queued"
                    => social_jobs[cand'[w]].created_at
                         <= social_jobs[k].created_at]_vars
    /\ [][\A j \in JobIds :
            social_jobs'[j].created_at = social_jobs[j].created_at]_vars

C28_Witness ==
    \E w \in ga_Workers :
        /\ pc[w] = "ga_lock_update"
        /\ cand[w] = "j1"
        /\ social_jobs["j1"].status = "queued"
        /\ social_jobs["j1"].attempts = 1
        /\ social_jobs["j1"].payload.last_error = "error"
        /\ social_jobs["j2"].status = "queued"
        /\ social_jobs["j2"].attempts = 0

\* C30: a row lockNextJob returns to worker w is the row as its conditional
\* update left it: running, locked_by w, locked_at the time of the update;
\* and the update is what took the row from queued to running.
C30_ReturnedRowIsLockedByCaller ==
    [][\A w \in ga_Workers :
         (pc[w] = "ga_lock_update" /\ pc'[w] = "ga_process")
         => /\ job'[w] = social_jobs'[job'[w].id]
            /\ job'[w].id = cand[w]
            /\ job'[w].status = "running"
            /\ job'[w].locked_by = w
            /\ job'[w].locked_at = now
            /\ social_jobs[job'[w].id].status = "queued"
            /\ social_jobs[job'[w].id].locked_by = NULL]_vars

C30_Witness ==
    /\ pc["w1"] = "crashed" /\ job["w1"].id = "j1"
    /\ pc["w2"] = "ga_process" /\ job["w2"].id = "j1"
    /\ job["w2"] = social_jobs["j1"]
    /\ social_jobs["j1"].status = "running"
    /\ social_jobs["j1"].locked_by = "w2"
    /\ social_jobs["j1"].locked_at > StartTime

(***************************************************************************)
(* Concurrent claim calls: every worker issues one call of the client-side *)
(* claimer (lockNextJob, or claimOne) and nothing else runs.               *)
(***************************************************************************)
claim_Init ==
    /\ now = StartTime
    /\ ticks = 0
    /\ errs = 0
    /\ mayCrash = {}
    /\ social_outputs = {}
    /\ job = [w \in Workers |-> NoJob]
    /\ cand = [w \in Workers |-> NULL]
    /\ lastStuckSweep = [w \in Workers |-> 0]
    /\ tmp = [w \in Workers |-> NULL]
    /\ hist = <<>>
    /\ \/ /\ social_jobs = [j \in JobIds |->
                               ga_row(j, "generate_assets", 2, "a1")]
          /\ social_queue = <<>>
          /\ pc = [w \in Workers |-> "ga_lock_select"]
       \/ /\ social_queue = [j \in JobIds |-> sw_row(j, NULL)]
          /\ social_jobs = <<>>
          /\ pc = [w \in Workers |-> "sw_claim_select"]

claim_Next ==
    \E w \in Workers :
        \/ ga_lockNextJob_select(w)
        \/ ga_lockNextJob_update(w)
        \/ sw_claimOne_select(w)
        \/ sw_claimOne_update(w)

SpecClaim == claim_Init /\ [][claim_Next]_vars

\* the workers whose claim call returned job j
claim_Returned(j) ==
    {w \in Workers : pc[w] \in {"ga_process", "sw_perform"} /\ job[w].id = j}

\* C1: of the concurrent calls of lockNextJob (or of claimOne) issued while
\* job j is queued (pending), at most one returns j, under every
\* interleaving of their select and conditional-update steps.
C1_AtMostOneClaimer ==
    \A j \in JobIds : Cardinality(claim_Returned(j)) <= 1

\* C1 witness: no store call failed, one call returned j1 and another call,
\* which had read j1 as its candidate, returned null while j2 is still
\* unclaimed.
C1_Witness ==
    /\ errs = 0
    /\ Cardinality(claim_Returned("j1")) = 1
    /\ \E w \in Workers : pc[w] \in {"ga_sleep_idle", "sw_sleep_idle"}
    /\ claim_Returned("j2") = {}
    /\ \A w \in Workers : cand[w] = NULL

(***************************************************************************)
(* src/apps/social-jobs-worker/src/loop.ts                                 *)
(***************************************************************************)
loop_frame == <<ticks, mayCrash, social_queue, social_outputs, cand,
                lastStuckSweep>>

\* backoffMs(attempts), lines 16-19, for a given BACKOFF_BASE_MS
loop_backoffMsWith(base, attempts) ==
    Min(BACKOFF_CAP_MS, Max(1, attempts + 1) * base)

loop_backoffMs(attempts) == loop_backoffMsWith(BACKOFF_BASE_MS, attempts)

\* The stored procedure social_jobs_claim_next(p_worker, p_stuck_after_ms):
\* first the reap rule (running rows whose locked_at is older than the
\* stuck-after period go back to queued, unlocked, attempts untouched) ...
loop_reap(tbl, t) ==
    [j \in DOMAIN tbl |->
        IF /\ tbl[j].status = "running"
           /\ tbl[j].locked_at # NULL_AT
           /\ tbl[j].locked_at < t - STUCK_AFTER_MS
        THEN [tbl[j] EXCEPT !.status = "queued", !.locked_at = NULL_AT,
                            !.locked_by = NULL]
        ELSE tbl[j]]

\* ... then the oldest queued row, by created_at ...
loop_oldestQueued(tbl) ==
    LET Q == {j \in DOMAIN tbl : tbl[j].status = "queued"}
    IN  IF Q = {} THEN NULL
        ELSE CHOOSE j \in Q : \A k \in Q : tbl[j].created_at <= tbl[k].created_at

\* ... is set running and locked for the caller, in the same transaction.
loop_claim_next(tbl, w, t) ==
    LET r == loop_reap(tbl, t)
        j == loop_oldestQueued(r)
    IN  IF j = NULL THEN r
        ELSE [r EXCEPT ![j].status = "running", ![j].locked_by = w,
                       ![j].locked_at = t]

\* mutant of loop_catch: an error that leaves the inner try/catch is caught
\* by nothing and ends runLoop
loop_catch_none == "loop_stopped"

\* lines 149-153: the catch around the body of the while loop; whatever
\* reaches it is logged and followed by sleep(SLEEP_ERROR_MS)
loop_catch == "loop_sleep_error"

\* claimNext(), lines 21-31, called at line 108; hist.erred[w] counts the
\* store errors of worker w since its last call of claimNext, and
\* hist.returnedOk[w] tells whether the handler has returned ok since then
loop_claimNext(w) ==
    /\ pc[w] = "loop_claim"
    /\ \E ok \in StoreOk :
         IF ~ok
         THEN /\ errs' = errs + 1
              /\ pc' = [pc EXCEPT ![w] = loop_catch]
              /\ hist' = [hist EXCEPT !.erred[w] = 1, !.returnedOk[w] = FALSE]
              /\ UNCHANGED <<social_jobs, job>>
         ELSE LET j == loop_oldestQueued(loop_reap(social_jobs, now))
              IN  /\ errs' = errs
                  /\ hist' = [hist EXCEPT !.erred[w] = 0,
                                           !.returnedOk[w] = FALSE]
                  /\ social_jobs' = loop_claim_next(social_jobs, w, now)
                  /\ IF j = NULL
                     THEN /\ job' = [job EXCEPT ![w] = NoJob]
                          /\ pc' = [pc EXCEPT ![w] = "loop_sleep_idle"]
                     ELSE /\ job' = [job EXCEPT ![w] = social_jobs'[j]]
                          /\ pc' = [pc EXCEPT ![w] = "loop_markRunning"]
    /\ UNCHANGED now
    /\ UNCHANGED tmp
    /\ UNCHANGED loop_frame

\* An error value: `about` numbers the execution it arose in (the claimed
\* row's attempts + 1) and len is the length of its message.
loop_error(jb, len) ==
    [about |-> jb.attempts + 1, len |-> len, ms |-> 0, content |-> 0]

\* a last_error of null
loop_noError == [about |-> 0, len |-> 0]

\* the locals of a worker that holds no error, no delay and no handler
\* result; content is what the model returned to the handler it is running
loop_local0 == [about |-> 0, len |-> 0, ms |-> 0, content |-> 0]

\* mutant of loop_errorMsg: the message is stored whole
loop_errorMsg_whole(err) == [about |-> err.about, len |-> err.len]

\* markFailed, line 79: the message cut to 900 characters
loop_errorMsg(err) == [about |-> err.about, len |-> Min(err.len, 900)]

\* mutant of loop_owned: the update is scoped by id alone
loop_owned_byIdOnly(tbl, jb, w) == TRUE

\* .eq("id", job.id).eq("locked_by", WORKER_ID): the row the update matches
loop_owned(tbl, jb, w) == tbl[jb.id].locked_by = w

\* mutant of loop_markRunning_update: attempts is left as it was
loop_markRunning_update_keepsAttempts(tbl, jb, w) ==
    IF loop_owned(tbl, jb, w)
    THEN [tbl EXCEPT ![jb.id].status = "running",
                     ![jb.id].last_trace_id = w]
    ELSE tbl

\* the update of markRunning(job, trace_id), lines 38-46
loop_markRunning_update(tbl, jb, w) ==
    IF loop_owned(tbl, jb, w)
    THEN [tbl EXCEPT ![jb.id].status = "running",
                     ![jb.id].attempts = jb.attempts + 1,
                     ![jb.id].last_trace_id = w]
    ELSE tbl

\* markRunning(job, trace_id), lines 37-49, called at line 124
loop_markRunning(w) ==
    /\ pc[w] = "loop_markRunning"
    /\ \E ok \in StoreOk :
         IF ~ok
         THEN /\ errs' = errs + 1
              /\ pc' = [pc EXCEPT ![w] = "loop_markFailed_catch"]
              /\ tmp' = [tmp EXCEPT ![w] = loop_error(job[w], 10)]
              /\ hist' = [hist EXCEPT !.erred[w] = @ + 1]
              /\ UNCHANGED social_jobs
         ELSE /\ errs' = errs
              /\ tmp' = tmp
              /\ social_jobs' = loop_markRunning_update(social_jobs, job[w], w)
              /\ hist' = [hist EXCEPT !.stale =
                            @ \/ social_jobs[job[w].id].locked_by
                                   \in Workers \ {w}]
              /\ pc' = [pc EXCEPT ![w] = "loop_handler"]
    /\ UNCHANGED <<now, job>>
    /\ UNCHANGED loop_frame

\* mutant of loop_handles: every job_type is given to the handler
loop_handles_any(type) == TRUE

\* line 127: the job types runLoop has a handler for
loop_handles(type) == type = "generate_assets"

\* What the generation call of the handler may do on the execution that
\* follows n earlier ones.  A row may carry a script k >= 0: the call then
\* throws on the first k executions of the job and answers afterwards;
\* without one (a negative script) both outcomes are possible.  msg_lens are
\* the lengths of the messages its errors may carry.
loop_outcomes(jb, n) ==
    IF jb.script < 0 THEN {"ok", "throw"}
    ELSE IF n < jb.script THEN {"throw"}
    ELSE {"ok"}

lp4_frame == <<ticks, mayCrash, social_queue, cand, lastStuckSweep>>

\* part_004 lines 293-306: what the handler reads from the claimed row, in
\* the execution whose generation returns content n
lp4_locals(jb, n) ==
    out_locals(p4_activity_id(out_job(jb.activity_id, jb.payload)),
               p4_channel(out_job(jb.activity_id, jb.payload)),
               p4_vertical_key(out_job(jb.activity_id, jb.payload)), n)

\* loop.ts lines 127-143: an unknown job_type goes to markFailed without
\* calling the handler; else generate_assets(job) is called (line 128), the
\* handler of part_004, which runs up to the first select of
\* fetchVerticalProfile (part_004 lines 186-206): an error of the select is
\* only logged, and without a row the handler asks for "general"
loop_generate_assets(w) ==
    /\ pc[w] = "loop_handler"
    /\ IF loop_handles(job[w].job_type)
       THEN \E ok \in StoreOk, hit \in BOOLEAN :
              /\ errs' = IF ok THEN errs ELSE errs + 1
              /\ pc' = [pc EXCEPT ![w] = IF ok /\ hit THEN "lp4_llm"
                                         ELSE "lp4_profile_general"]
              /\ tmp' = [tmp EXCEPT ![w] =
                           [loop_local0 EXCEPT
                              !.content = hist.execs[job[w].id] + 1]]
              /\ hist' = [hist EXCEPT !.execs[job[w].id] = @ + 1]
       ELSE /\ pc' = [pc EXCEPT ![w] = "loop_markFailed_try"]
            /\ tmp' = [tmp EXCEPT ![w] = loop_error(job[w], 10)]
            /\ UNCHANGED <<errs, hist>>
    /\ UNCHANGED <<now, social_jobs, social_outputs, job>>
    /\ UNCHANGED lp4_frame

\* fetchVerticalProfile, part_004 lines 208-224: the select of vertical
\* "general"; with or without a row, and on an error, the handler goes on
lp4_fetchVerticalProfile_general(w) ==
    /\ pc[w] = "lp4_profile_general"
    /\ \E ok \in StoreOk :
         errs' = IF ok THEN errs ELSE errs + 1
    /\ pc' = [pc EXCEPT ![w] = "lp4_llm"]
    /\ UNCHANGED <<now, social_jobs, social_outputs, job, tmp, hist>>
    /\ UNCHANGED lp4_frame

\* callOpenAIJsonStrict, part_004 lines 64-175, called at line 333: it
\* throws without OPENAI_API_KEY, on an HTTP error and on an answer of the
\* wrong shape; the throw leaves the handler and is caught at loop.ts line
\* 144
lp4_callOpenAIJsonStrict(w) ==
    /\ pc[w] = "lp4_llm"
    /\ \E res \in loop_outcomes(job[w], tmp[w].content - 1),
          len \in job[w].msg_lens :
         /\ res = "ok" => len = 10
         /\ pc' = [pc EXCEPT ![w] = IF res = "ok" THEN "lp4_upsert"
                                    ELSE "loop_markFailed_catch"]
         /\ tmp' = [tmp EXCEPT ![w] = IF res = "ok" THEN @
                                      ELSE loop_error(job[w], len)]
    /\ UNCHANGED <<now, errs, social_jobs, social_outputs, job, hist>>
    /\ UNCHANGED lp4_frame

\* part_004 lines 366-395: the upsert; on its error the handler throws
\* (line 380), else it returns { ok: true } and runLoop goes to markDone
lp4_upsert(w) ==
    /\ pc[w] = "lp4_upsert"
    /\ \E ok \in StoreOk :
         IF ~ok \/ ~social_outputs.unique_index
         THEN /\ errs' = IF ok THEN errs ELSE errs + 1
              /\ pc' = [pc EXCEPT ![w] = "loop_markFailed_catch"]
              /\ tmp' = [tmp EXCEPT ![w] = loop_error(job[w], 10)]
              /\ UNCHANGED <<social_outputs, hist>>
         ELSE /\ errs' = errs
              /\ social_outputs' =
                   [social_outputs EXCEPT !.rows =
                      p4_upsert_rows(@, p4_insertRow(
                          lp4_locals(job[w], tmp[w].content)))]
              /\ pc' = [pc EXCEPT ![w] = "loop_markDone"]
              /\ tmp' = [tmp EXCEPT ![w] = loop_local0]
              /\ hist' = [hist EXCEPT !.returnedOk[w] = TRUE]
    /\ UNCHANGED <<now, social_jobs, job>>
    /\ UNCHANGED lp4_frame

\* mutant of loop_markDone_update: the lock owner is left in place
loop_markDone_update_keepsOwner(tbl, jb, w) ==
    IF loop_owned(tbl, jb, w)
    THEN [tbl EXCEPT ![jb.id].status = "done",
                     ![jb.id].last_trace_id = w,
                     ![jb.id].locked_at = NULL_AT]
    ELSE tbl

\* the update of markDone(jobId, trace_id), lines 55-64
loop_markDone_update(tbl, jb, w) ==
    IF loop_owned(tbl, jb, w)
    THEN [tbl EXCEPT ![jb.id].status = "done",
                     ![jb.id].last_trace_id = w,
                     ![jb.id].locked_at = NULL_AT,
                     ![jb.id].locked_by = NULL]
    ELSE tbl

\* markDone(job.id, trace_id), lines 54-67, called at line 137; when it
\* throws, the catch of line 144 calls markFailed
loop_markDone(w) ==
    /\ pc[w] = "loop_markDone"
    /\ \E ok \in StoreOk :
         IF ~ok
         THEN /\ errs' = errs + 1
              /\ pc' = [pc EXCEPT ![w] = "loop_markFailed_catch"]
              /\ tmp' = [tmp EXCEPT ![w] = loop_error(job[w], 10)]
              /\ hist' = [hist EXCEPT !.erred[w] = @ + 1]
              /\ UNCHANGED <<social_jobs, job>>
         ELSE /\ errs' = errs
              /\ tmp' = tmp
              /\ social_jobs' = loop_markDone_update(social_jobs, job[w], w)
              /\ hist' = [hist EXCEPT !.stale =
                            @ \/ social_jobs[job[w].id].locked_by
                                   \in Workers \ {w}]
              /\ pc' = [pc EXCEPT ![w] = "loop_claim"]
              /\ job' = [job EXCEPT ![w] = NoJob]
    /\ UNCHANGED now
    /\ UNCHANGED loop_frame

\* markFailed, line 76
loop_nextStatus(attempts, maxAttempts) ==
    IF attempts >= maxAttempts THEN "failed" ELSE "queued"

\* mutant of loop_markFailed_update: the lock is kept through the backoff
loop_markFailed_update_keepsLock(tbl, jb, w, error) ==
    LET attempts == jb.attempts + 1
    IN  IF loop_owned(tbl, jb, w)
        THEN [tbl EXCEPT ![jb.id].status = loop_nextStatus(attempts, jb.max_attempts),
                         ![jb.id].attempts = attempts,
                         ![jb.id].last_error = loop_errorMsg(error),
                         ![jb.id].last_trace_id = w]
        ELSE tbl

\* the update of markFailed(job, error, trace_id), lines 74-93
loop_markFailed_update(tbl, jb, w, error) ==
    LET attempts == jb.attempts + 1
    IN  IF loop_owned(tbl, jb, w)
        THEN [tbl EXCEPT ![jb.id].status = loop_nextStatus(attempts, jb.max_attempts),
                         ![jb.id].attempts = attempts,
                         ![jb.id].last_error = loop_errorMsg(error),
                         ![jb.id].last_trace_id = w,
                         ![jb.id].locked_at = NULL_AT,
                         ![jb.id].locked_by = NULL]
        ELSE tbl

\* markFailed(job, error, trace_id), lines 73-101: `thrown` is where an
\* error of the update goes
loop_markFailed(w, at, thrown) ==
    /\ pc[w] = at
    /\ \E ok \in StoreOk :
         IF ~ok
         THEN /\ errs' = errs + 1
              /\ pc' = [pc EXCEPT ![w] = thrown]
              /\ tmp' = [tmp EXCEPT ![w] = loop_error(job[w], 10)]
              /\ hist' = [hist EXCEPT !.erred[w] = @ + 1]
              /\ UNCHANGED <<social_jobs, job>>
         ELSE /\ errs' = errs
              /\ social_jobs' =
                   loop_markFailed_update(social_jobs, job[w], w, tmp[w])
              /\ hist' = [hist EXCEPT
                            !.stale = @ \/ social_jobs[job[w].id].locked_by
                                             \in Workers \ {w},
                            !.lastFail[job[w].id] =
                                IF social_jobs[job[w].id].locked_by = w
                                THEN job[w].attempts + 1 ELSE @,
                            !.fails[job[w].id] =
                                IF social_jobs[job[w].id].locked_by = w
                                THEN @ + 1 ELSE @]
              /\ pc' = [pc EXCEPT ![w] =
                          IF loop_nextStatus(job[w].attempts + 1,
                                             job[w].max_attempts) = "queued"
                          THEN "loop_backoff" ELSE "loop_claim"]
              /\ tmp' = [tmp EXCEPT ![w] =
                           IF loop_nextStatus(job[w].attempts + 1,
                                              job[w].max_attempts) = "queued"
                           THEN [loop_local0 EXCEPT
                                  !.ms = loop_backoffMs(job[w].attempts + 1)]
                           ELSE loop_local0]
              /\ job' = [job EXCEPT ![w] = NoJob]
    /\ UNCHANGED now
    /\ UNCHANGED loop_frame

\* markFailed called inside the try, lines 132 and 142: its error is caught
\* at line 144
loop_markFailed_try(w) ==
    loop_markFailed(w, "loop_markFailed_try", "loop_markFailed_catch")

\* markFailed called in the catch, line 147: its error reaches line 149
loop_markFailed_catch(w) ==
    loop_markFailed(w, "loop_markFailed_catch", loop_catch)

\* sleep(SLEEP_IDLE_MS), sleep(SLEEP_ERROR_MS) or sleep(backoffMs) returns
loop_sleep(w) ==
    /\ pc[w] \in {"loop_sleep_idle", "loop_sleep_error", "loop_backoff"}
    /\ pc' = [pc EXCEPT ![w] = "loop_claim"]
    /\ job' = [job EXCEPT ![w] = NoJob]
    /\ tmp' = [tmp EXCEPT ![w] = loop_local0]
    /\ UNCHANGED <<now, errs, social_jobs, hist>>
    /\ UNCHANGED loop_frame

loop_step(w) ==
    \/ loop_claimNext(w)
    \/ loop_markRunning(w)
    \/ loop_generate_assets(w)
    \/ lp4_fetchVerticalProfile_general(w)
    \/ lp4_callOpenAIJsonStrict(w)
    \/ lp4_upsert(w)
    \/ loop_markDone(w)
    \/ loop_markFailed_try(w)
    \/ loop_markFailed_catch(w)
    \/ loop_sleep(w)

\* the payload of each job: j1 names channel and vertical in payload.meta
loop_payload(j) ==
    IF j = "j1"
    THEN out_payload(JsString("fb"), JsString(""),
                     JsMeta(JsString(" ig "), JsString(" vet ")))
    ELSE out_payload(JsUndefined, JsUndefined, JsNoObject)

\* the activity each job was created for
loop_activity(j) == IF j = "j1" THEN "a1" ELSE "a2"

\* a row of social_jobs as the producer creates it: queued, attempts 0
loop_row(j, type, max) ==
    [id |-> j, job_type |-> type, status |-> "queued", attempts |-> 0,
     max_attempts |-> max, locked_at |-> NULL_AT, locked_by |-> NULL,
     created_at |-> created_at(j), last_error |-> loop_noError,
     last_trace_id |-> NULL, activity_id |-> loop_activity(j),
     payload |-> loop_payload(j), script |-> 0 - 1, msg_lens |-> {10}]

loop_Workers == {"w1", "w2"}

loop_InitWith(crashable, failures) ==
    /\ now = StartTime
    /\ ticks = 0
    /\ errs = MaxStoreErrors - failures
    /\ mayCrash = crashable
    /\ social_queue = <<>>
    /\ \E m \in {1, 2} :
         social_jobs = [j \in JobIds |->
                          IF j = "j1" THEN loop_row(j, "generate_assets", m)
                          ELSE loop_row(j, "other", 3 - m)]
    /\ social_outputs = [unique_index |-> TRUE, rows |-> <<>>]
    /\ pc = [w \in Workers |-> IF w \in loop_Workers THEN "loop_claim" ELSE "off"]
    /\ job = [w \in Workers |-> NoJob]
    /\ cand = [w \in Workers |-> NULL]
    /\ lastStuckSweep = [w \in Workers |-> 0]
    /\ tmp = [w \in Workers |-> loop_local0]
    /\ hist = [stale |-> FALSE, lastFail |-> [j \in JobIds |-> 0],
               execs |-> [j \in JobIds |-> 0], fails |-> [j \in JobIds |-> 0],
               erred |-> [w \in Workers |-> 0],
               returnedOk |-> [w \in Workers |-> FALSE]]

loop_Init == loop_InitWith({"w1"}, MaxStoreErrors)

loop_Next ==
    \/ \E w \in Workers : loop_step(w)
    \/ \E w \in Workers : Crash(w)
    \/ Tick

SpecLoop == loop_Init /\ [][loop_Next]_vars

loop_updates == {"loop_markRunning", "loop_markDone", "loop_markFailed_try",
                 "loop_markFailed_catch"}

\* C2: a row of social_jobs is failed exactly when the last failure markFailed
\* finalised for it stored an attempts value equal to max_attempts.
C2_FailedIffAttemptsEqualMax ==
    \A j \in JobIds :
        social_jobs[j].status = "failed"
            <=> hist.lastFail[j] = social_jobs[j].max_attempts

\* C7: a markRunning, markDone or markFailed update issued by a worker for a
\* job whose row is no longer locked by that worker (it was reaped, and
\* possibly claimed by another worker) leaves every row of social_jobs as it
\* was: status, attempts, last_error, last_trace_id and the lock fields.
C7_StaleWorkerChangesNothing ==
    [][\A w \in Workers :
          (/\ pc[w] \in loop_updates
           /\ pc'[w] # pc[w]
           /\ social_jobs[job[w].id].locked_by # w)
          => social_jobs' = social_jobs]_vars

C7_Witness ==
    /\ hist.stale
    /\ \E j \in JobIds :
         /\ social_jobs[j].locked_by = "w2"
         /\ social_jobs[j].status = "running"
         /\ pc["w1"] \in {"loop_handler", "loop_backoff", "loop_claim"}

\* C9: in every reachable state of social_jobs, locked_by is set exactly on
\* the running rows, and locked_at is set exactly when locked_by is.
C9_LockedIffRunning ==
    \A j \in JobIds :
        /\ social_jobs[j].locked_by # NULL <=> social_jobs[j].status = "running"
        /\ social_jobs[j].locked_at # NULL_AT <=> social_jobs[j].locked_by # NULL

C9_Witness ==
    /\ social_jobs["j1"].status = "done"
    /\ social_jobs["j1"].locked_by = NULL
    /\ social_jobs["j2"].status = "running"
    /\ social_jobs["j2"].locked_by = "w2"
    /\ social_jobs["j2"].attempts = 1


\* C13: in runLoop of loop.ts a claimed job whose job_type is not
\* generate_assets never has the handler invoked; from the dispatch the
\* worker goes to markFailed, whose update, when it reaches the row the
\* worker still owns, stores one attempt more than the claimed row had and
\* makes the row queued (attempts < max_attempts) or failed (attempts >=
\* max_attempts) with the lock cleared, as for a handler error.
C13_UnknownTypeGoesToMarkFailed ==
    /\ [](\A j \in JobIds :
            social_jobs[j].job_type # "generate_assets" => hist.execs[j] = 0)
    /\ [][\A w \in Workers :
            (/\ pc[w] = "loop_handler" /\ pc'[w] # pc[w]
             /\ job[w].job_type # "generate_assets")
            => /\ pc'[w] \in {"loop_markFailed_try", "crashed"}
               /\ social_jobs' = social_jobs]_vars
    /\ [][\A w \in Workers :
            (/\ pc[w] \in {"loop_markFailed_try", "loop_markFailed_catch"}
             /\ pc'[w] \in {"loop_backoff", "loop_claim"}
             /\ job[w].job_type # "generate_assets"
             /\ social_jobs[job[w].id].locked_by = w)
            => LET row == social_jobs'[job[w].id]
               IN  /\ row.attempts = job[w].attempts + 1
                   /\ row.status = IF row.attempts < row.max_attempts
                                   THEN "queued" ELSE "failed"
                   /\ row.locked_by = NULL /\ row.locked_at = NULL_AT
                   /\ row.last_error = loop_errorMsg(tmp[w])]_vars

C13_Witness ==
    /\ social_jobs["j2"].job_type = "other"
    /\ social_jobs["j2"].max_attempts = 2
    /\ social_jobs["j2"].status = "failed"
    /\ social_jobs["j2"].attempts = 2
    /\ hist.fails["j2"] = 2
    /\ hist.execs["j2"] = 0
    /\ errs = 0 /\ ticks = 0

\* C15 (as claimed): in loop.ts the delay a worker sleeps after a retryable
\* failure is min(30000, max(1, attempts) * BACKOFF_BASE_MS), attempts being
\* the value markFailed stores (one base after the first failure of a job).
C15_BackoffUsesStoredAttempts ==
    [][\A w \in Workers :
          (/\ pc[w] \in {"loop_markFailed_try", "loop_markFailed_catch"}
           /\ pc'[w] = "loop_backoff")
          => tmp'[w].ms = Min(30000, Max(1, job[w].attempts + 1) * BACKOFF_BASE_MS)]_vars

\* C16 (as claimed): in loop.ts the stored attempts of a job equals the
\* number of failures markFailed has finalised for it, at every state.
C16_AttemptsCountsFailures ==
    \A j \in JobIds : social_jobs[j].attempts = hist.fails[j]

\* C26: the markFailed step that sends the failing worker, still the owner
\* of the row, into its backoff sleep has re-queued and unlocked the row:
\* during the sleep the row is queued with no lock, open to claimNext of any
\* other worker (see C26_Witness: a second worker has claimed and executed
\* the job while the first is still in its backoff sleep).
C26_RequeuedBeforeBackoff ==
    [][\A w \in loop_Workers :
         (/\ pc[w] \in {"loop_markFailed_try", "loop_markFailed_catch"}
          /\ pc'[w] = "loop_backoff"
          /\ social_jobs[job[w].id].locked_by = w)
         => /\ social_jobs'[job[w].id].status = "queued"
            /\ social_jobs'[job[w].id].locked_by = NULL
            /\ social_jobs'[job[w].id].locked_at = NULL_AT
            /\ tmp'[w].ms > 0]_vars

C26_Witness ==
    /\ ticks = 0 /\ errs = 0
    /\ pc["w1"] = "loop_backoff" /\ tmp["w1"].ms = 5000
    /\ hist.fails["j1"] = 1 /\ hist.fails["j2"] = 0
    /\ pc["w2"] = "loop_markDone" /\ job["w2"].id = "j1"
    /\ hist.execs["j1"] = 2
    /\ social_jobs["j1"].status = "running"
    /\ social_jobs["j1"].locked_by = "w2"

\* C29: each worker of loop.ts owns at most one job at a time: at most one
\* row has locked_by equal to a given worker, and a worker is about to call
\* claimNext only when no row is locked by it.
C29_OneJobPerWorker ==
    \A w \in loop_Workers :
        /\ Cardinality({j \in JobIds : social_jobs[j].locked_by = w}) <= 1
        /\ pc[w] = "loop_claim"
           => \A j \in JobIds : social_jobs[j].locked_by # w

\* C31: after the handler returned ok for a job, the worker that executed it
\* applies no finalize step but markDone: no later step of that worker in
\* the iteration moves the job to queued or failed or rewrites its attempts
\* or last_error, also when markDone fails with a store error.
C31_OkJobOnlyMarkedDone ==
    [][\A w \in loop_Workers :
         (hist.returnedOk[w] /\ pc'[w] # pc[w] /\ job[w] # NoJob)
         => LET old == social_jobs[job[w].id]
                new == social_jobs'[job[w].id]
            IN  /\ new.attempts = old.attempts
                /\ new.last_error = old.last_error
                /\ new.status \in {"queued", "failed"}
                     => new.status = old.status]_vars

\* C32: the stored attempts of a job created with attempts 0 and
\* max_attempts >= 1 never exceeds its max_attempts.
C32_AttemptsWithinMax ==
    \A j \in JobIds : social_jobs[j].attempts <= social_jobs[j].max_attempts

(***************************************************************************)
(* loop.ts with no crashes, no reaps (the clock stands still) and a store  *)
(* that answers every call.  Job j1 carries a script: its handler fails on *)
(* its first `script` executions; script = max_attempts makes every        *)
(* execution fail.  Job j2 has a job_type without handler.                 *)
(***************************************************************************)
loop_InitQuiet ==
    /\ now = StartTime
    /\ ticks = 0
    /\ errs = MaxStoreErrors
    /\ mayCrash = {}
    /\ social_queue = <<>>
    /\ \E m \in {1, 2, 3} : \E k \in 0 .. m :
         social_jobs = [j \in JobIds |->
                          IF j = "j1"
                          THEN [loop_row(j, "generate_assets", m) EXCEPT
                                  !.script = k, !.msg_lens = {10, 2000}]
                          ELSE loop_row(j, "other", 2)]
    /\ social_outputs = [unique_index |-> TRUE, rows |-> <<>>]
    /\ pc = [w \in Workers |-> IF w \in loop_Workers THEN "loop_claim" ELSE "off"]
    /\ job = [w \in Workers |-> NoJob]
    /\ cand = [w \in Workers |-> NULL]
    /\ lastStuckSweep = [w \in Workers |-> 0]
    /\ tmp = [w \in Workers |-> loop_local0]
    /\ hist = [stale |-> FALSE, lastFail |-> [j \in JobIds |-> 0],
               execs |-> [j \in JobIds |-> 0], fails |-> [j \in JobIds |-> 0],
               erred |-> [w \in Workers |-> 0],
               returnedOk |-> [w \in Workers |-> FALSE]]

loop_NextQuiet == \E w \in Workers : loop_step(w)

\* every worker's loop keeps running: each awaited call returns
FairLoopQuiet ==
    /\ loop_InitQuiet
    /\ [][loop_NextQuiet]_vars
    /\ \A w \in loop_Workers : WF_vars(loop_step(w))

\* C17: with no crashes, reaps or store errors, a job created with attempts
\* 0 and max_attempts m whose handler fails on its first k < m executions
\* and then succeeds is executed k + 1 times and ends, for good, done with
\* the lock cleared and stored attempts k + 1.
loop_succeedsAfter(j) ==
    /\ social_jobs[j].job_type = "generate_assets"
    /\ social_jobs[j].script >= 0
    /\ social_jobs[j].script < social_jobs[j].max_attempts

C17_SucceedsAfterKFailures ==
    /\ [](\A j \in JobIds :
             loop_succeedsAfter(j)
             => hist.execs[j] <= social_jobs[j].script + 1)
    /\ <>[](\A j \in JobIds :
               loop_succeedsAfter(j)
               => /\ social_jobs[j].status = "done"
                  /\ social_jobs[j].locked_by = NULL
                  /\ social_jobs[j].locked_at = NULL_AT
                  /\ social_jobs[j].attempts = social_jobs[j].script + 1
                  /\ hist.execs[j] = social_jobs[j].script + 1
                  /\ hist.fails[j] = social_jobs[j].script)

C17_Witness ==
    /\ social_jobs["j1"].max_attempts = 3
    /\ social_jobs["j1"].script = 2
    /\ social_jobs["j1"].status = "done"
    /\ social_jobs["j1"].attempts = 3
    /\ social_jobs["j1"].locked_by = NULL
    /\ hist.fails["j1"] = 2
    /\ hist.execs["j1"] = 3

\* C18: with no crashes, reaps or store errors, a job created with attempts
\* 0 and max_attempts m whose handler fails on every execution is executed
\* exactly m times; each markFailed stores the failure's message cut to 900
\* characters; the job ends, for good, failed with attempts m, the lock
\* cleared and last_error that of the m-th failure; once failed its row is
\* never changed (it is never claimed again).
loop_alwaysFails(j) ==
    /\ social_jobs[j].job_type = "generate_assets"
    /\ social_jobs[j].script = social_jobs[j].max_attempts

C18_FailsAfterMExecutions ==
    /\ [](\A j \in JobIds :
             loop_alwaysFails(j)
             => hist.execs[j] <= social_jobs[j].max_attempts)
    /\ [][\A j \in JobIds, w \in Workers :
             (/\ loop_alwaysFails(j)
              /\ pc[w] \in {"loop_markFailed_try", "loop_markFailed_catch"}
              /\ pc'[w] # pc[w]
              /\ job[w].id = j)
             => /\ social_jobs'[j].last_error.about = tmp[w].about
                /\ social_jobs'[j].last_error.len = Min(tmp[w].len, 900)]_vars
    /\ [][\A j \in JobIds :
             (loop_alwaysFails(j) /\ social_jobs[j].status = "failed")
             => social_jobs'[j] = social_jobs[j]]_vars
    /\ <>[](\A j \in JobIds :
               loop_alwaysFails(j)
               => /\ social_jobs[j].status = "failed"
                  /\ social_jobs[j].attempts = social_jobs[j].max_attempts
                  /\ social_jobs[j].locked_by = NULL
                  /\ social_jobs[j].locked_at = NULL_AT
                  /\ social_jobs[j].last_error.about
                       = social_jobs[j].max_attempts
                  /\ social_jobs[j].last_error.len <= 900
                  /\ hist.execs[j] = social_jobs[j].max_attempts)

C18_Witness ==
    /\ social_jobs["j1"].max_attempts = 3
    /\ social_jobs["j1"].script = 3
    /\ social_jobs["j1"].status = "failed"
    /\ social_jobs["j1"].attempts = 3
    /\ social_jobs["j1"].last_error = [about |-> 3, len |-> 900]
    /\ hist.execs["j1"] = 3
    /\ \A w \in loop_Workers : pc[w] = "loop_sleep_idle"

(***************************************************************************)
(* loop.ts with a store that may reject up to MaxLoopErrors calls, in any  *)
(* combination; no crashes, the clock stands still.                        *)
(***************************************************************************)
MaxLoopErrors == 3

loop_InitErr == loop_InitWith({}, MaxLoopErrors)

loop_NextErr == \E w \in Workers : loop_step(w)

\* every worker's loop keeps running: each awaited call and sleep returns
FairLoopErr ==
    /\ loop_InitErr
    /\ [][loop_NextErr]_vars
    /\ \A w \in loop_Workers : WF_vars(loop_step(w))

loop_positions ==
    {"loop_claim", "loop_markRunning", "loop_handler", "lp4_profile_general",
     "lp4_llm", "lp4_upsert", "loop_markDone",
     "loop_markFailed_try", "loop_markFailed_catch", "loop_backoff",
     "loop_sleep_idle", "loop_sleep_error"}

\* C22 (as written in the specification): after every store error raised by
\* claimNext, markRunning, markDone or markFailed the worker sleeps
\* SLEEP_ERROR_MS before it calls claimNext again: a worker whose iteration
\* met a store error comes back to claimNext only from the error sleep.
C22_EveryStoreErrorSleeps ==
    [][\A w \in loop_Workers :
         (hist.erred[w] > 0 /\ pc[w] # "loop_claim" /\ pc'[w] = "loop_claim")
         => pc[w] = "loop_sleep_error"]_vars

\* C22 (amended): no store error raised by claimNext, markRunning, markDone
\* or markFailed, in any combination, ends the loop.  An error of claimNext,
\* or of markFailed called in the handler-error catch, is followed by the
\* SLEEP_ERROR_MS sleep; an error of markRunning, of markDone or of
\* markFailed called inside the try is followed by markFailed in the catch,
\* and when that call succeeds the worker goes on to the backoff sleep or to
\* claimNext without the error sleep.  In every case the worker eventually
\* calls claimNext again.
C22_StoreErrorsNeverEndTheLoop ==
    /\ [](\A w \in loop_Workers : pc[w] \in loop_positions)
    /\ [][\A w \in loop_Workers :
            (/\ errs' = errs + 1 /\ pc'[w] # pc[w]
             /\ pc[w] \in loop_updates \cup {"loop_claim"})
            => pc'[w] = IF pc[w] \in {"loop_claim", "loop_markFailed_catch"}
                        THEN "loop_sleep_error"
                        ELSE "loop_markFailed_catch"]_vars
    /\ \A w \in loop_Workers :
         (hist.erred[w] > 0) ~> (pc[w] = "loop_claim")
    /\ \A w \in loop_Workers : []<>(pc[w] = "loop_claim")

C22_Witness ==
    /\ hist.erred["w1"] = 2
    /\ pc["w1"] = "loop_sleep_error"
    /\ job["w1"].id = "j1"
    /\ social_jobs["j1"].locked_by = "w1"
    /\ hist.erred["w2"] = 1
    /\ pc["w2"] = "loop_sleep_error"

\* the contents of the social_outputs rows of job j's key
lp4_contents(tbl, j) ==
    {tbl.rows[i].content :
       i \in out_rowsOf(tbl.rows, out_key(lp4_locals(social_jobs[j], 0)))}

\* C34: once a job is done, the social_outputs row of its key keeps the
\* content it held when the job was finalised: no later step, in particular
\* none of a worker that lost ownership of the job, replaces it.
C34_DoneOutputIsFinal ==
    [][\A j \in JobIds :
         (social_jobs[j].status = "done" /\ social_jobs'[j].status = "done")
         => lp4_contents(social_outputs', j) = lp4_contents(social_outputs, j)]_vars

(***************************************************************************)
(* src/unnamed/part_000: generate_assets, lines 608-790.  Its rows carry   *)
(* the activity id in meta.activity_id, the field activity_id here.        *)
(***************************************************************************)
\* line 615: job?.meta || {}
p0_meta(jb) == JsOr(jb.meta, JsEmptyObject)

\* line 619: payload.channel || meta.channel || "multi"
p0_channel(jb) ==
    JsText(JsOr(JsOr(jb.payload.channel, p0_meta(jb).channel),
                JsString("multi")))

\* line 620
p0_vertical_key(jb) ==
    JsText(JsOr(JsOr(jb.payload.vertical_key, p0_meta(jb).vertical_key),
                JsString("general")))

\* line 631: payload.activity_id ?? job?.activity_id ?? meta.activity_id ??
\* null
p0_activity_id(jb) ==
    JsText(JsCoalesce(JsCoalesce(JsCoalesce(jb.payload.activity_id,
                                            JsColumn(jb.activity_id)),
                                 p0_meta(jb).activity_id),
                      JsNull))

\* line 617: payload.org_id ?? job?.org_id ?? null
p0_org_id(jb) ==
    JsText(JsCoalesce(JsCoalesce(jb.payload.org_id, JsColumn(jb.org_id)),
                      JsNull))

\* if (activity_id), line 754 and line 774
p0_hasActivity(jb) == jb.activity_id \notin {NULL, ""}

\* lines 608-648: the caller hands a job to generate_assets(job);
\* loadVerticalProfile asks with the org filter first when org_id is set
p0_call(w) ==
    /\ pc[w] = "p0_idle"
    /\ hist.runs < MaxRuns
    /\ \E a \in Activities, p \in Payloads :
         /\ job' = [job EXCEPT ![w] =
                      out_locals(p0_activity_id(out_job(a, p)),
                                 p0_channel(out_job(a, p)),
                                 p0_vertical_key(out_job(a, p)),
                                 hist.runs + 1)]
         /\ pc' = [pc EXCEPT ![w] =
                     IF p0_org_id(out_job(a, p)) \notin {NULL, ""}
                     THEN "p0_profile_org" ELSE "p0_profile"]
    /\ hist' = [hist EXCEPT !.runs = @ + 1]
    /\ UNCHANGED <<errs, social_outputs, tmp>>
    /\ UNCHANGED out_frame

\* loadVerticalProfile, lines 465-468: the select with the org filter; its
\* row is the profile, an error or no row leads to the second select
p0_loadVerticalProfile_org(w) ==
    /\ pc[w] = "p0_profile_org"
    /\ \E ok \in StoreOk, hit \in BOOLEAN :
         /\ errs' = IF ok THEN errs ELSE errs + 1
         /\ pc' = [pc EXCEPT ![w] = IF ok /\ hit THEN "p0_llm"
                                    ELSE "p0_profile"]
    /\ UNCHANGED <<social_outputs, job, tmp, hist>>
    /\ UNCHANGED out_frame

\* loadVerticalProfile, lines 470-480: the select without the org filter; an
\* error or no row gives profile null
p0_loadVerticalProfile(w) ==
    /\ pc[w] = "p0_profile"
    /\ \E ok \in StoreOk :
         errs' = IF ok THEN errs ELSE errs + 1
    /\ pc' = [pc EXCEPT ![w] = "p0_llm"]
    /\ UNCHANGED <<social_outputs, job, tmp, hist>>
    /\ UNCHANGED out_frame

\* lines 674-690: callOpenAIJson, safeJsonParse, validateResult
p0_callOpenAIJson(w) ==
    /\ pc[w] = "p0_llm"
    /\ \E ok \in BOOLEAN :
         /\ pc' = [pc EXCEPT ![w] = IF ok THEN "p0_select" ELSE "p0_insert_failed"]
         /\ hist' = [hist EXCEPT !.threw = @ \/ ~ok]
    /\ UNCHANGED <<errs, social_outputs, job, tmp>>
    /\ UNCHANGED out_frame

\* lines 692-716: best-effort insert of a failed row, errors swallowed, then
\* throw e
p0_insert_failed(w) ==
    /\ pc[w] = "p0_insert_failed"
    /\ LET row == [activity_id |-> job[w].activity_id,
                   channel |-> job[w].channel,
                   vertical_key |-> job[w].vertical_key,
                   status |-> "failed", content |-> 0]
       IN  \E ok \in StoreOk :
             IF ~ok \/ out_duplicate(social_outputs, row)
             THEN /\ errs' = IF ok THEN errs ELSE errs + 1
                  /\ UNCHANGED social_outputs
             ELSE /\ errs' = errs
                  /\ social_outputs' =
                       [social_outputs EXCEPT !.rows = Append(@, row)]
    /\ pc' = [pc EXCEPT ![w] = "p0_idle"]
    /\ UNCHANGED <<job, tmp, hist>>
    /\ UNCHANGED out_frame

\* lines 720-742: insertRow
p0_insertRow(jb) ==
    [activity_id |-> jb.activity_id, channel |-> jb.channel,
     vertical_key |-> jb.vertical_key, status |-> "draft",
     content |-> jb.content]

\* lines 752-767: the read before the write; without an activity_id, on an
\* error of the select or when nothing matches, control reaches the insert
p0_select(w) ==
    /\ pc[w] = "p0_select"
    /\ IF ~p0_hasActivity(job[w])
       THEN /\ errs' = errs
            /\ tmp' = [tmp EXCEPT ![w] = NULL]
            /\ pc' = [pc EXCEPT ![w] = "p0_insert"]
       ELSE \E ok \in StoreOk :
              LET existing == out_rowsOf(social_outputs.rows, out_key(job[w]))
              IN  IF ok /\ existing # {}
                  THEN /\ errs' = errs
                       /\ \E i \in existing :
                            tmp' = [tmp EXCEPT ![w] = i]
                       /\ pc' = [pc EXCEPT ![w] = "p0_update"]
                  ELSE /\ errs' = IF ok THEN errs ELSE errs + 1
                       /\ tmp' = [tmp EXCEPT ![w] = NULL]
                       /\ pc' = [pc EXCEPT ![w] = "p0_insert"]
    /\ UNCHANGED <<social_outputs, job, hist>>
    /\ UNCHANGED out_frame

\* lines 763-765: update(insertRow).eq("id", existingId), its result not
\* looked at, then return { ok: true, updated: true }
p0_update(w) ==
    /\ pc[w] = "p0_update"
    /\ \E ok \in StoreOk :
         IF ~ok
         THEN /\ errs' = errs + 1
              /\ UNCHANGED social_outputs
         ELSE /\ errs' = errs
              /\ social_outputs' =
                   [social_outputs EXCEPT !.rows[tmp[w]] = p0_insertRow(job[w])]
    /\ hist' = out_returnedOk(hist, job[w])
    /\ pc' = [pc EXCEPT ![w] = "p0_idle"]
    /\ tmp' = [tmp EXCEPT ![w] = NULL]
    /\ UNCHANGED job
    /\ UNCHANGED out_frame

\* lines 769-772: insert(insertRow); if (error) throw error; return
\* { ok: true, inserted: true }
p0_insert(w) ==
    /\ pc[w] = "p0_insert"
    /\ \E ok \in StoreOk :
         IF ~ok \/ out_duplicate(social_outputs, p0_insertRow(job[w]))
         THEN /\ errs' = IF ok THEN errs ELSE errs + 1
              /\ pc' = [pc EXCEPT ![w] = "p0_reselect"]
              /\ UNCHANGED <<social_outputs, hist>>
         ELSE /\ errs' = errs
              /\ social_outputs' =
                   [social_outputs EXCEPT
                      !.rows = Append(@, p0_insertRow(job[w]))]
              /\ hist' = out_returnedOk(hist, job[w])
              /\ pc' = [pc EXCEPT ![w] = "p0_idle"]
    /\ UNCHANGED <<job, tmp>>
    /\ UNCHANGED out_frame

\* lines 773-789: after an error, with an activity_id, select again; return
\* { ok: true, deduped: true } when a row is there, else throw e
p0_reselect(w) ==
    /\ pc[w] = "p0_reselect"
    /\ IF ~p0_hasActivity(job[w])
       THEN UNCHANGED <<errs, hist>>
       ELSE \E ok \in StoreOk :
              /\ errs' = IF ok THEN errs ELSE errs + 1
              /\ hist' = IF ok /\ out_rowsOf(social_outputs.rows,
                                             out_key(job[w])) # {}
                         THEN out_returnedOk(hist, job[w]) ELSE hist
    /\ pc' = [pc EXCEPT ![w] = "p0_idle"]
    /\ UNCHANGED <<social_outputs, job, tmp>>
    /\ UNCHANGED out_frame

p0_step(w) ==
    \/ p0_call(w)
    \/ p0_loadVerticalProfile_org(w)
    \/ p0_loadVerticalProfile(w)
    \/ p0_callOpenAIJson(w)
    \/ p0_insert_failed(w)
    \/ p0_select(w)
    \/ p0_update(w)
    \/ p0_insert(w)
    \/ p0_reselect(w)

p0_Init == out_InitWith(MaxStoreErrors, "p0_idle")

p0_Next == \E w \in Workers : p0_step(w)

SpecP0 == p0_Init /\ [][p0_Next]_vars

\* C4: while every execution of the handler of part_000 succeeds (the model
\* call never throws and the store answers every call), social_outputs holds
\* at most one row for each key with non-null activity_id, however the
\* executions of different workers interleave.  The keys looked at are those
\* with a non-empty activity_id, for which the handler runs its
\* read-before-write (line 752).
C4_AtMostOneRowPerKey ==
    (~hist.threw /\ errs = 0) =>
        \A k \in OutKeys :
            k[1] # "" => Cardinality(out_rowsOf(social_outputs.rows, k)) <= 1

\* C19: the handler of part_000 returns { ok: true } only when its own write
\* was committed: in the step in which an execution returns ok, the table
\* holds the draft row with that execution's content; a rejected update or
\* insert makes the handler throw.
C19_OkOnlyAfterCommittedWrite ==
    [][\A w \in Workers :
         (/\ pc[w] \in {"p0_update", "p0_insert", "p0_reselect"}
          /\ pc'[w] = "p0_idle"
          /\ hist' = out_returnedOk(hist, job[w])
          /\ job[w].activity_id # NULL)
         => \E i \in DOMAIN social_outputs'.rows :
              /\ social_outputs'.rows[i].status = "draft"
              /\ social_outputs'.rows[i].content = job[w].content
              /\ out_key(social_outputs'.rows[i]) = out_key(job[w])]_vars

\* C20: no step of an execution of the handler of part_000 that fails in the
\* generation call (callOpenAIJson, safeJsonParse or validateResult throws)
\* changes table social_outputs.
C20_FailedRunLeavesOutputsUnchanged ==
    [][\A w \in Workers :
         (pc[w] \in {"p0_llm", "p0_insert_failed"} /\ pc'[w] # pc[w])
         => social_outputs' = social_outputs]_vars

(***************************************************************************)
(* src/unnamed/part_000: handleGenerateAssetsJob, lines 241-362, the       *)
(* exported handler of the first file of the part.  Its caller hands it a  *)
(* job with an activity_id; its rows carry the column activity_id.         *)
(***************************************************************************)
\* lines 29-34: the first argument that is a string with a non-empty trim,
\* trimmed, else ""
RECURSIVE p0j_pickString(_)
p0j_pickString(vals) ==
    IF vals = <<>> THEN ""
    ELSE IF Head(vals).t = "string" /\ trim(Head(vals).s) # ""
         THEN trim(Head(vals).s)
         ELSE p0j_pickString(Tail(vals))

\* line 258: args.job.meta ?? payload?.meta ?? {}
p0j_meta(jb) == JsCoalesce(JsCoalesce(jb.meta, jb.payload.meta), JsEmptyObject)

\* line 260
p0j_channel(jb) ==
    p0j_pickString(<<p0j_meta(jb).channel, jb.payload.channel,
                     JsString("multi")>>)

\* line 261
p0j_vertical_key(jb) ==
    p0j_pickString(<<p0j_meta(jb).vertical_key, jb.payload.vertical_key,
                     JsString("general")>>)

\* lines 241-272: activity_id is args.job.activity_id as it comes
p0j_call(w) ==
    /\ pc[w] = "p0j_idle"
    /\ hist.runs < MaxRuns
    /\ \E a \in Activities \ {NULL}, p \in Payloads :
         job' = [job EXCEPT ![w] =
                   out_locals(a, p0j_channel(out_job(a, p)),
                              p0j_vertical_key(out_job(a, p)),
                              hist.runs + 1)]
    /\ hist' = [hist EXCEPT !.runs = @ + 1]
    /\ pc' = [pc EXCEPT ![w] = "p0j_profile"]
    /\ UNCHANGED <<errs, social_outputs, tmp>>
    /\ UNCHANGED out_frame

\* lines 276-282: fetchVerticalProfile (lines 120-130); an error throws, no
\* row is no error
p0j_fetchVerticalProfile(w) ==
    /\ pc[w] = "p0j_profile"
    /\ \E ok \in StoreOk :
         /\ errs' = IF ok THEN errs ELSE errs + 1
         /\ pc' = [pc EXCEPT ![w] = IF ok THEN "p0j_activity" ELSE "p0j_idle"]
    /\ UNCHANGED <<social_outputs, job, tmp, hist>>
    /\ UNCHANGED out_frame

\* lines 294-300: fetchActivity (lines 132-141) reads crm_lead_activity; an
\* error throws, and so does an activity that is not there
p0j_fetchActivity(w) ==
    /\ pc[w] = "p0j_activity"
    /\ \E ok \in StoreOk :
         /\ errs' = IF ok THEN errs ELSE errs + 1
         /\ pc' = [pc EXCEPT ![w] =
                     IF ok /\ job[w].activity_id \in DOMAIN crm_lead_activity
                     THEN "p0j_llm" ELSE "p0j_idle"]
    /\ UNCHANGED <<social_outputs, job, tmp, hist>>
    /\ UNCHANGED out_frame

\* lines 320-328: openaiResponsesJSON throws on an HTTP error and on an
\* answer that is not the JSON asked for
p0j_openaiResponsesJSON(w) ==
    /\ pc[w] = "p0j_llm"
    /\ \E ok \in BOOLEAN :
         /\ pc' = [pc EXCEPT ![w] = IF ok THEN "p0j_insert" ELSE "p0j_idle"]
         /\ hist' = [hist EXCEPT !.threw = @ \/ ~ok]
    /\ UNCHANGED <<errs, social_outputs, job, tmp>>
    /\ UNCHANGED out_frame

\* lines 333-361: insertSocialOutput (lines 183-236), a plain insert of a
\* draft row; an error (a duplicate key under the unique index is one)
\* throws, else return { ok: true }
p0j_insertSocialOutput(w) ==
    /\ pc[w] = "p0j_insert"
    /\ \E ok \in StoreOk :
         IF ~ok \/ out_duplicate(social_outputs, p0_insertRow(job[w]))
         THEN /\ errs' = IF ok THEN errs ELSE errs + 1
              /\ UNCHANGED <<social_outputs, hist>>
         ELSE /\ errs' = errs
              /\ social_outputs' =
                   [social_outputs EXCEPT
                      !.rows = Append(@, p0_insertRow(job[w]))]
              /\ hist' = out_returnedOk(hist, job[w])
    /\ pc' = [pc EXCEPT ![w] = "p0j_idle"]
    /\ UNCHANGED <<job, tmp>>
    /\ UNCHANGED out_frame

p0j_step(w) ==
    \/ p0j_call(w)
    \/ p0j_fetchVerticalProfile(w)
    \/ p0j_fetchActivity(w)
    \/ p0j_openaiResponsesJSON(w)
    \/ p0j_insertSocialOutput(w)

p0j_Init == out_InitWith(MaxStoreErrors, "p0j_idle")

p0j_Next == \E w \in Workers : p0j_step(w)

SpecP0Job == p0j_Init /\ [][p0j_Next]_vars

(***************************************************************************)
(* src/unnamed/part_005: generate_assets, lines 239-387, the handler of    *)
(* the second file of the part.  It throws on every failure and inserts    *)
(* its row with a plain insert.                                            *)
(***************************************************************************)
\* lines 170-175: the first argument that is a string with a non-empty trim,
\* trimmed, else ""
RECURSIVE p5_pickString(_)
p5_pickString(vals) ==
    IF vals = <<>> THEN ""
    ELSE IF Head(vals).t = "string" /\ trim(Head(vals).s) # ""
         THEN trim(Head(vals).s)
         ELSE p5_pickString(Tail(vals))

\* line 246: job?.meta ?? payload?.meta ?? {}
p5_meta(jb) == JsCoalesce(JsCoalesce(jb.meta, jb.payload.meta), JsEmptyObject)

\* line 248
p5_channel(jb) ==
    p5_pickString(<<p5_meta(jb).channel, jb.payload.channel,
                    JsString("multi")>>)

\* line 249
p5_vertical_key(jb) ==
    p5_pickString(<<p5_meta(jb).vertical_key, jb.payload.vertical_key,
                    JsString("general")>>)

\* column activity_id of the job handed to the handler; "a9" names no row of
\* crm_lead_activity
p5_Activities == Activities \cup {"a9"}

\* lines 239-253: without an activity_id the handler throws before any
\* store call
p5_call(w) ==
    /\ pc[w] = "p5_idle"
    /\ hist.runs < MaxRuns
    /\ \E a \in p5_Activities, p \in Payloads :
         /\ job' = [job EXCEPT ![w] =
                      out_locals(a, p5_channel(out_job(a, p)),
                                 p5_vertical_key(out_job(a, p)),
                                 hist.runs + 1)]
         /\ pc' = [pc EXCEPT ![w] =
                     IF JsTruthy(JsColumn(a)) THEN "p5_activity"
                     ELSE "p5_idle"]
         /\ hist' = [hist EXCEPT !.runs = @ + 1,
                                 !.threw = @ \/ ~JsTruthy(JsColumn(a))]
    /\ UNCHANGED <<errs, social_outputs, tmp>>
    /\ UNCHANGED out_frame

\* lines 256-263: the select of crm_lead_activity; an error throws, and so
\* does an activity that is not there
p5_activity(w) ==
    /\ pc[w] = "p5_activity"
    /\ \E ok \in StoreOk :
         /\ errs' = IF ok THEN errs ELSE errs + 1
         /\ pc' = [pc EXCEPT ![w] =
                     IF ok /\ job[w].activity_id \in DOMAIN crm_lead_activity
                     THEN "p5_profile" ELSE "p5_idle"]
    /\ UNCHANGED <<social_outputs, job, tmp, hist>>
    /\ UNCHANGED out_frame

\* lines 274-280: the select of social_vertical_profiles; an error throws,
\* no row is no error
p5_profile(w) ==
    /\ pc[w] = "p5_profile"
    /\ \E ok \in StoreOk :
         /\ errs' = IF ok THEN errs ELSE errs + 1
         /\ pc' = [pc EXCEPT ![w] = IF ok THEN "p5_llm" ELSE "p5_idle"]
    /\ UNCHANGED <<social_outputs, job, tmp, hist>>
    /\ UNCHANGED out_frame

\* lines 341-346: openaiResponsesJSON (lines 179-232) throws on an HTTP
\* error and on an answer that is not JSON
p5_openaiResponsesJSON(w) ==
    /\ pc[w] = "p5_llm"
    /\ \E ok \in BOOLEAN :
         /\ pc' = [pc EXCEPT ![w] = IF ok THEN "p5_insert" ELSE "p5_idle"]
         /\ hist' = [hist EXCEPT !.threw = @ \/ ~ok]
    /\ UNCHANGED <<errs, social_outputs, job, tmp>>
    /\ UNCHANGED out_frame

\* lines 367-382: the row of the insert; activity_id is String(activity_id)
p5_insertRow(jb) ==
    [activity_id |-> JsString(jb.activity_id).s, channel |-> jb.channel,
     vertical_key |-> jb.vertical_key, status |-> "draft",
     content |-> jb.content]

\* lines 367-388: a plain insert; an error (a duplicate key under the unique
\* index is one) throws, else return { ok: true }
p5_insert(w) ==
    /\ pc[w] = "p5_insert"
    /\ \E ok \in StoreOk :
         IF ~ok \/ out_duplicate(social_outputs, p5_insertRow(job[w]))
         THEN /\ errs' = IF ok THEN errs ELSE errs + 1
              /\ UNCHANGED <<social_outputs, hist>>
         ELSE /\ errs' = errs
              /\ social_outputs' =
                   [social_outputs EXCEPT
                      !.rows = Append(@, p5_insertRow(job[w]))]
              /\ hist' = out_returnedOk(hist, job[w])
    /\ pc' = [pc EXCEPT ![w] = "p5_idle"]
    /\ UNCHANGED <<job, tmp>>
    /\ UNCHANGED out_frame

p5_step(w) ==
    \/ p5_call(w)
    \/ p5_activity(w)
    \/ p5_profile(w)
    \/ p5_openaiResponsesJSON(w)
    \/ p5_insert(w)

p5_Init == out_InitWith(MaxStoreErrors, "p5_idle")

p5_Next == \E w \in Workers : p5_step(w)

SpecP5 == p5_Init /\ [][p5_Next]_vars

(***************************************************************************)
(* src/unnamed/part_005: handleGenerateAssets, lines 8-82, the handler of  *)
(* the first file of the part.  It calls no model: it copies a draft from  *)
(* the activity's payload and meta, it returns { ok: false, ... } instead  *)
(* of throwing, and its row carries the activity inside meta.              *)
(***************************************************************************)
\* line 24: act.payload ?? {}
p5h_p(activity) == JsCoalesce(crm_lead_activity[activity].payload, JsEmptyObject)

\* line 25: act.meta ?? {}
p5h_m(activity) == JsCoalesce(crm_lead_activity[activity].meta, JsEmptyObject)

\* lines 27-28: p.vertical_key ?? m.vertical_key ?? p.vertical ?? m.vertical
\* ?? null; no payload and no meta of the model has a field vertical
p5h_verticalKey(activity) ==
    JsText(JsCoalesce(JsCoalesce(p5h_p(activity).vertical_key,
                                 p5h_m(activity).vertical_key), JsNull))

\* line 30: p.channel ?? m.channel ?? "multi"
p5h_channel(activity) ==
    JsText(JsCoalesce(JsCoalesce(p5h_p(activity).channel,
                                 p5h_m(activity).channel), JsString("multi")))

p5h_Activities == {"a1", "a2", "a9", "", NULL}

\* lines 8-11: without an activity_id, return { ok: false } and call nothing
p5h_call(w) ==
    /\ pc[w] = "p5h_idle"
    /\ hist.runs < MaxRuns
    /\ \E a \in p5h_Activities :
         /\ job' = [job EXCEPT ![w] =
                      out_locals(a, NULL, NULL, hist.runs + 1)]
         /\ pc' = [pc EXCEPT ![w] =
                     IF JsTruthy(JsColumn(a)) THEN "p5h_activity"
                     ELSE "p5h_idle"]
    /\ hist' = [hist EXCEPT !.runs = @ + 1]
    /\ UNCHANGED <<errs, social_outputs, tmp>>
    /\ UNCHANGED out_frame

\* lines 13-21: the select of crm_lead_activity with .single(); an error or
\* no row returns { ok: false }
p5h_activity(w) ==
    /\ pc[w] = "p5h_activity"
    /\ \E ok \in StoreOk :
         /\ errs' = IF ok THEN errs ELSE errs + 1
         /\ IF ok /\ job[w].activity_id \in DOMAIN crm_lead_activity
            THEN /\ job' = [job EXCEPT ![w] =
                              out_locals(job[w].activity_id,
                                         p5h_channel(job[w].activity_id),
                                         p5h_verticalKey(job[w].activity_id),
                                         job[w].content)]
                 /\ pc' = [pc EXCEPT ![w] = "p5h_insert"]
            ELSE /\ pc' = [pc EXCEPT ![w] = "p5h_idle"]
                 /\ UNCHANGED job
    /\ UNCHANGED <<social_outputs, tmp, hist>>
    /\ UNCHANGED out_frame

\* lines 51-70: the row of the insert; meta.activity_id is act.id
p5h_insertRow(jb) ==
    [activity_id |-> jb.activity_id, channel |-> jb.channel,
     vertical_key |-> jb.vertical_key, status |-> "draft",
     content |-> jb.content]

\* lines 72-82: a plain insert; an error (a duplicate key under the unique
\* index is one) returns { ok: false }, else { ok: true, social_output_id }
p5h_insert(w) ==
    /\ pc[w] = "p5h_insert"
    /\ \E ok \in StoreOk :
         IF ~ok \/ out_duplicate(social_outputs, p5h_insertRow(job[w]))
         THEN /\ errs' = IF ok THEN errs ELSE errs + 1
              /\ UNCHANGED social_outputs
         ELSE /\ errs' = errs
              /\ social_outputs' =
                   [social_outputs EXCEPT
                      !.rows = Append(@, p5h_insertRow(job[w]))]
    /\ pc' = [pc EXCEPT ![w] = "p5h_idle"]
    /\ UNCHANGED <<job, tmp, hist>>
    /\ UNCHANGED out_frame

p5h_step(w) ==
    \/ p5h_call(w)
    \/ p5h_activity(w)
    \/ p5h_insert(w)

p5h_Init == out_InitWith(MaxStoreErrors, "p5h_idle")

p5h_Next == \E w \in Workers : p5h_step(w)

SpecP5Draft == p5h_Init /\ [][p5h_Next]_vars

(***************************************************************************)
(* src/socialWorker.mjs: handleGenerateAssets, lines 368-408, the stub     *)
(* handler at the end of the file.  It writes no social_outputs row: it    *)
(* notes a worker_done activity and closes the job, and its update selects *)
(* the rows of social_jobs by activity_id and job_type, not by id.         *)
(***************************************************************************)
hga_frame == <<now, ticks, mayCrash, social_queue, social_outputs, cand,
               lastStuckSweep, tmp>>

\* job_type and activity_id of job j2
hga_Kinds == ga_Kinds \cup {<<"generate_assets", "a1">>}

\* lines 372-379: the caller's job; resultPayload is built from it
hga_call(w) ==
    /\ pc[w] = "hga_idle"
    /\ hist.runs < MaxRuns
    /\ \E j \in JobIds : job' = [job EXCEPT ![w] = social_jobs[j]]
    /\ hist' = [hist EXCEPT !.runs = @ + 1]
    /\ pc' = [pc EXCEPT ![w] = "hga_activity"]
    /\ UNCHANGED <<errs, social_jobs>>
    /\ UNCHANGED hga_frame

\* lines 383-394: the insert into crm_lead_activity; its result is not read
\* and what it throws is caught, so the handler goes on either way
hga_insertActivity(w) ==
    /\ pc[w] = "hga_activity"
    /\ \E ok \in StoreOk : errs' = IF ok THEN errs ELSE errs + 1
    /\ pc' = [pc EXCEPT ![w] = "hga_update"]
    /\ UNCHANGED <<social_jobs, job, hist>>
    /\ UNCHANGED hga_frame

\* lines 397-405: the rows the update matches; a null activity_id equals
\* nothing
hga_matches(tbl, jb) ==
    {j \in DOMAIN tbl : /\ jb.activity_id # NULL
                        /\ tbl[j].activity_id = jb.activity_id
                        /\ tbl[j].job_type = jb.job_type}

\* lines 397-407: every matching row becomes done with the caller's payload
\* plus the result; an error throws
hga_updateJob(w) ==
    /\ pc[w] = "hga_update"
    /\ \E ok \in StoreOk :
         IF ok
         THEN /\ errs' = errs
              /\ social_jobs' =
                   [j \in DOMAIN social_jobs |->
                      IF j \in hga_matches(social_jobs, job[w])
                      THEN [social_jobs[j] EXCEPT
                              !.status = "done",
                              !.payload = [job[w].payload EXCEPT
                                             !.result = TRUE]]
                      ELSE social_jobs[j]]
         ELSE /\ errs' = errs + 1
              /\ UNCHANGED social_jobs
    /\ pc' = [pc EXCEPT ![w] = "hga_idle"]
    /\ job' = [job EXCEPT ![w] = NoJob]
    /\ UNCHANGED hist
    /\ UNCHANGED hga_frame

hga_step(w) ==
    \/ hga_call(w)
    \/ hga_insertActivity(w)
    \/ hga_updateJob(w)

hga_Init ==
    /\ now = StartTime
    /\ ticks = 0
    /\ errs = 0
    /\ mayCrash = {}
    /\ social_queue = <<>>
    /\ \E k \in hga_Kinds :
         social_jobs = [j \in JobIds |->
                          IF j = "j1" THEN ga_row(j, "generate_assets", 2, "a1")
                          ELSE ga_row(j, k[1], 1, k[2])]
    /\ social_outputs = [unique_index |-> TRUE, rows |-> <<>>]
    /\ pc = [w \in Workers |-> IF w \in {"w1", "w2"} THEN "hga_idle" ELSE "off"]
    /\ job = [w \in Workers |-> NoJob]
    /\ cand = [w \in Workers |-> NULL]
    /\ lastStuckSweep = [w \in Workers |-> 0]
    /\ tmp = [w \in Workers |-> NULL]
    /\ hist = [runs |-> 0]

hga_Next == \E w \in Workers : hga_step(w)

SpecStub == hga_Init /\ [][hga_Next]_vars

(***************************************************************************)
(* src/unnamed/part_003: generate_assets, lines 128-269.  cand[w] is the   *)
(* AI_DRY_RUN setting of worker w's process; job[w].generation tells how   *)
(* the result of the execution at hand was obtained.                       *)
(***************************************************************************)
\* lines 18-22: safeString(v, fallback)
p3_safeString(v, fallback) ==
    IF v.t = "string" THEN v.s
    ELSE IF v.t \in {"undefined", "null"} THEN fallback
    ELSE v.s

\* line 135: payload?.meta ?? payload?.metadata ?? {}
p3_meta(jb) == JsCoalesce(JsCoalesce(jb.payload.meta, JsUndefined), JsEmptyObject)

\* lines 141-144: safeString(payload?.vertical_key, "") ||
\* safeString(meta?.vertical_key, "") || "general"
p3_vertical_key(jb) ==
    JsOr(JsOr(JsString(p3_safeString(jb.payload.vertical_key, "")),
              JsString(p3_safeString(p3_meta(jb).vertical_key, ""))),
         JsString("general")).s

\* line 157: (process.env.AI_DRY_RUN || "").toLowerCase() === "1", for the
\* settings of p3_DryRunSettings, which hold no upper-case letter
p3_dryRun(setting) == JsOr(JsColumn(setting), JsString("")).s = "1"

\* the AI_DRY_RUN settings of a process: unset, "1", "true"
p3_DryRunSettings == {NULL, "1", "true"}

\* lines 128-157: the caller hands a job over; channel is always "multi",
\* and line 243 stores job?.activity_id ?? null
p3_call(w) ==
    /\ pc[w] = "p3_idle"
    /\ hist.runs < MaxRuns
    /\ \E a \in Activities, p \in Payloads :
         job' = [job EXCEPT ![w] =
                   [id |-> NULL,
                    activity_id |-> JsText(JsCoalesce(JsColumn(a), JsNull)),
                    channel |-> "multi",
                    vertical_key |-> p3_vertical_key(out_job(a, p)),
                    content |-> hist.runs + 1, generation |-> "pending"]]
    /\ hist' = [hist EXCEPT !.runs = @ + 1]
    /\ pc' = [pc EXCEPT ![w] = "p3_result"]
    /\ UNCHANGED <<errs, social_outputs, tmp>>
    /\ UNCHANGED out_frame

\* lines 186-224: the dry-run placeholder, or callOpenAI inside a try whose
\* catch (lines 211-223) logs the error and puts a fallback result in place
p3_callOpenAI(w) ==
    /\ pc[w] = "p3_result"
    /\ IF p3_dryRun(cand[w])
       THEN /\ job' = [job EXCEPT ![w].generation = "dry_run"]
            /\ hist' = hist
       ELSE \E ok \in BOOLEAN :
              /\ job' = [job EXCEPT ![w].generation =
                           IF ok THEN "openai" ELSE "failed"]
              /\ hist' = [hist EXCEPT !.threw = @ \/ ~ok]
    /\ pc' = [pc EXCEPT ![w] = "p3_insert"]
    /\ UNCHANGED <<errs, social_outputs, tmp>>
    /\ UNCHANGED out_frame

\* lines 227-251: insertRow; the fallback and the placeholder carry no
\* generated content
p3_insertRow(jb) ==
    [activity_id |-> jb.activity_id, channel |-> jb.channel,
     vertical_key |-> jb.vertical_key, status |-> "draft",
     content |-> IF jb.generation = "openai" THEN jb.content ELSE 0]

\* lines 253-268: insert(insertRow); on error throw, else return
\* { ok: true, ... }
p3_insert(w) ==
    /\ pc[w] = "p3_insert"
    /\ \E ok \in StoreOk :
         IF ~ok
         THEN /\ errs' = errs + 1
              /\ UNCHANGED <<social_outputs, hist>>
         ELSE /\ errs' = errs
              /\ social_outputs' =
                   [social_outputs EXCEPT
                      !.rows = Append(@, p3_insertRow(job[w]))]
              /\ hist' = out_returnedOk(hist, job[w])
    /\ pc' = [pc EXCEPT ![w] = "p3_idle"]
    /\ UNCHANGED <<job, tmp>>
    /\ UNCHANGED out_frame

p3_step(w) ==
    \/ p3_call(w)
    \/ p3_callOpenAI(w)
    \/ p3_insert(w)

p3_Init ==
    /\ now = StartTime
    /\ ticks = 0
    /\ errs = 0
    /\ mayCrash = {}
    /\ social_queue = <<>>
    /\ social_jobs = <<>>
    /\ social_outputs = [unique_index |-> FALSE, rows |-> <<>>]
    /\ pc = [w \in Workers |-> IF w \in {"w1", "w2"} THEN "p3_idle" ELSE "off"]
    /\ job = [w \in Workers |-> NoJob]
    /\ \E dry \in [{"w1", "w2"} -> p3_DryRunSettings] :
         cand = [w \in Workers |-> IF w \in {"w1", "w2"} THEN dry[w] ELSE NULL]
    /\ lastStuckSweep = [w \in Workers |-> 0]
    /\ tmp = [w \in Workers |-> NULL]
    /\ hist = out_hist0

p3_Next == \E w \in Workers : p3_step(w)

SpecP3 == p3_Init /\ [][p3_Next]_vars

\* C21: in the handler of part_003, an execution whose generation call
\* failed neither writes a row to social_outputs nor returns ok: no later
\* step of that execution changes the table or records a success.
C21_GenerationFailureWritesNothing ==
    [][\A w \in Workers :
         (/\ pc[w] = "p3_insert"
          /\ job[w].generation = "failed"
          /\ pc'[w] # pc[w])
         => /\ social_outputs' = social_outputs
            /\ hist'.oks = hist.oks]_vars

(***************************************************************************)
(* src/unnamed/part_001: the handler generate_assets (lines 334-443) with  *)
(* updateJobStart, updateJobDone, updateJobFailed and insertSocialOutput,  *)
(* and the worker runLoop (lines 516-552) with claimNext, markDone and     *)
(* markFailed.                                                             *)
(***************************************************************************)
p1_frame == <<ticks, mayCrash, social_queue, cand, lastStuckSweep>>

\* claimNext(), lines 463-473, on the same stored procedure as loop.ts
p1_claimNext(w) ==
    /\ pc[w] = "p1_claim"
    /\ \E ok \in StoreOk :
         IF ~ok
         THEN /\ errs' = errs + 1
              /\ pc' = [pc EXCEPT ![w] = "p1_sleep_error"]
              /\ UNCHANGED <<social_jobs, job>>
         ELSE LET j == loop_oldestQueued(loop_reap(social_jobs, now))
              IN  /\ errs' = errs
                  /\ social_jobs' = loop_claim_next(social_jobs, w, now)
                  /\ IF j = NULL
                     THEN /\ job' = [job EXCEPT ![w] = NoJob]
                          /\ pc' = [pc EXCEPT ![w] = "p1_sleep_idle"]
                     ELSE /\ job' = [job EXCEPT ![w] = social_jobs'[j]]
                          /\ pc' = [pc EXCEPT ![w] = "p1_dispatch"]
    /\ UNCHANGED <<now, social_outputs, tmp, hist>>
    /\ UNCHANGED p1_frame

\* runLoop lines 532-543 and handler lines 343-345: an unknown job_type goes
\* to markFailed; a job without activity_id makes the handler throw at once
p1_dispatch(w) ==
    /\ pc[w] = "p1_dispatch"
    /\ pc' = [pc EXCEPT ![w] =
                IF job[w].job_type # "generate_assets" THEN "p1_markFailed"
                ELSE IF job[w].activity_id \in {NULL, ""}
                THEN "p1_updateJobFailed"
                ELSE "p1_updateJobStart_select"]
    /\ UNCHANGED <<now, errs, social_jobs, social_outputs, job, tmp, hist>>
    /\ UNCHANGED p1_frame

\* updateJobStart, lines 41-47: read attempts; an error of the select is
\* not looked at and reads as attempts 0
p1_updateJobStart_select(w) ==
    /\ pc[w] = "p1_updateJobStart_select"
    /\ \E ok \in StoreOk :
         /\ errs' = IF ok THEN errs ELSE errs + 1
         /\ tmp' = [tmp EXCEPT ![w] =
                      (IF ok THEN social_jobs[job[w].id].attempts ELSE 0) + 1]
    /\ pc' = [pc EXCEPT ![w] = "p1_updateJobStart_update"]
    /\ UNCHANGED <<now, social_jobs, social_outputs, job, hist>>
    /\ UNCHANGED p1_frame

\* updateJobStart, lines 49-58: the update, by id alone
p1_updateJobStart_update(w) ==
    /\ pc[w] = "p1_updateJobStart_update"
    /\ \E ok \in StoreOk :
         IF ~ok
         THEN /\ errs' = errs + 1
              /\ pc' = [pc EXCEPT ![w] = "p1_updateJobFailed"]
              /\ UNCHANGED social_jobs
         ELSE /\ errs' = errs
              /\ social_jobs' =
                   [social_jobs EXCEPT ![job[w].id].status = "running",
                                       ![job[w].id].attempts = tmp[w],
                                       ![job[w].id].last_trace_id = w]
              /\ pc' = [pc EXCEPT ![w] = "p1_activity"]
    /\ tmp' = [tmp EXCEPT ![w] = NULL]
    /\ UNCHANGED <<now, social_outputs, job, hist>>
    /\ UNCHANGED p1_frame

\* lines 14-16: asString(v, fallback = "")
p1_asString(v, fallback) == IF v.t = "string" THEN v.s ELSE fallback

\* lines 367-370: asString(meta?.channel) || asString(payload?.channel) ||
\* "multi", with meta = activity.meta ?? {} and payload likewise
p1_channel(activity) ==
    JsOr(JsOr(JsString(p1_asString(
                  JsCoalesce(activity.meta, JsEmptyObject).channel, "")),
              JsString(p1_asString(
                  JsCoalesce(activity.payload, JsEmptyObject).channel, ""))),
         JsString("multi")).s

\* lines 372-375
p1_vertical_key(activity) ==
    JsOr(JsOr(JsString(p1_asString(
                  JsCoalesce(activity.meta, JsEmptyObject).vertical_key, "")),
              JsString(p1_asString(
                  JsCoalesce(activity.payload, JsEmptyObject).vertical_key,
                  ""))),
         JsString("general")).s

\* line 341: String(process.env.SOCIAL_DRY_RUN || "").toLowerCase() ===
\* "true", for the settings of p1_DryRunSettings, which hold no upper-case
\* letter
p1_dryRun(setting) == JsOr(JsColumn(setting), JsString("")).s = "true"

\* the SOCIAL_DRY_RUN settings of a process: unset, "true", "1"
p1_DryRunSettings == {NULL, "true", "1"}

\* lines 351-358: the select of the activity; an error throws, and so does
\* an activity that is not there
p1_activity(w) ==
    /\ pc[w] = "p1_activity"
    /\ \E ok \in StoreOk :
         /\ errs' = IF ok THEN errs ELSE errs + 1
         /\ pc' = [pc EXCEPT ![w] =
                     IF ok /\ job[w].activity_id \in DOMAIN crm_lead_activity
                     THEN "p1_profile" ELSE "p1_updateJobFailed"]
    /\ UNCHANGED <<now, social_jobs, social_outputs, job, tmp, hist>>
    /\ UNCHANGED p1_frame

\* after the profile is loaded, lines 389-413: the dry run takes the
\* placeholder and goes to the insert, else callOpenAI is awaited
p1_afterProfile(w) ==
    IF p1_dryRun(cand[w]) THEN "p1_insertSocialOutput" ELSE "p1_callOpenAI"

\* getVerticalProfile, lines 91-101 and 115: the select of the activity's
\* vertical; an error throws; without a row, a vertical other than
\* "general" asks again
p1_getVerticalProfile(w) ==
    /\ pc[w] = "p1_profile"
    /\ \E ok \in StoreOk, hit \in BOOLEAN :
         /\ errs' = IF ok THEN errs ELSE errs + 1
         /\ pc' = [pc EXCEPT ![w] =
                     IF ~ok THEN "p1_updateJobFailed"
                     ELSE IF ~hit /\ p1_vertical_key(
                               crm_lead_activity[job[w].activity_id])
                             # "general"
                     THEN "p1_profile_general"
                     ELSE p1_afterProfile(w)]
    /\ UNCHANGED <<now, social_jobs, social_outputs, job, tmp, hist>>
    /\ UNCHANGED p1_frame

\* getVerticalProfile, lines 103-112: the select of vertical "general"; an
\* error throws
p1_getVerticalProfile_general(w) ==
    /\ pc[w] = "p1_profile_general"
    /\ \E ok \in StoreOk :
         /\ errs' = IF ok THEN errs ELSE errs + 1
         /\ pc' = [pc EXCEPT ![w] = IF ok THEN p1_afterProfile(w)
                                    ELSE "p1_updateJobFailed"]
    /\ UNCHANGED <<now, social_jobs, social_outputs, job, tmp, hist>>
    /\ UNCHANGED p1_frame

\* lines 403-413: without OPENAI_API_KEY line 404 throws; callOpenAI (lines
\* 200-284) throws on an HTTP error and on an answer it cannot read
p1_callOpenAI(w) ==
    /\ pc[w] = "p1_callOpenAI"
    /\ \E ok \in BOOLEAN :
         pc' = [pc EXCEPT ![w] =
                  IF ok THEN "p1_insertSocialOutput" ELSE "p1_updateJobFailed"]
    /\ UNCHANGED <<now, errs, social_jobs, social_outputs, job, tmp, hist>>
    /\ UNCHANGED p1_frame

\* insertSocialOutput, lines 286-332: a plain insert; channel and
\* vertical_key come from the activity
p1_insertSocialOutput(w) ==
    /\ pc[w] = "p1_insertSocialOutput"
    /\ LET row == [activity_id |-> job[w].activity_id,
                   channel |-> p1_channel(
                       crm_lead_activity[job[w].activity_id]),
                   vertical_key |-> p1_vertical_key(
                       crm_lead_activity[job[w].activity_id]),
                   status |-> "draft", content |-> job[w].attempts + 1]
       IN  \E ok \in StoreOk :
             IF ~ok \/ out_duplicate(social_outputs, row)
             THEN /\ errs' = IF ok THEN errs ELSE errs + 1
                  /\ pc' = [pc EXCEPT ![w] = "p1_updateJobFailed"]
                  /\ UNCHANGED social_outputs
             ELSE /\ errs' = errs
                  /\ social_outputs' =
                       [social_outputs EXCEPT !.rows = Append(@, row)]
                  /\ pc' = [pc EXCEPT ![w] = "p1_updateJobDone"]
    /\ UNCHANGED <<now, social_jobs, job, tmp, hist>>
    /\ UNCHANGED p1_frame

\* updateJobDone, lines 61-73, called at line 429: by id alone
p1_updateJobDone(w) ==
    /\ pc[w] = "p1_updateJobDone"
    /\ \E ok \in StoreOk :
         IF ~ok
         THEN /\ errs' = errs + 1
              /\ pc' = [pc EXCEPT ![w] = "p1_updateJobFailed"]
              /\ UNCHANGED social_jobs
         ELSE /\ errs' = errs
              /\ social_jobs' =
                   [social_jobs EXCEPT ![job[w].id].status = "done",
                                       ![job[w].id].last_error = NULL,
                                       ![job[w].id].last_trace_id = w]
              /\ pc' = [pc EXCEPT ![w] = "p1_markDone"]
    /\ UNCHANGED <<now, social_outputs, job, tmp, hist>>
    /\ UNCHANGED p1_frame

\* the catch of the handler, lines 432-440: updateJobFailed (lines 75-89),
\* by id alone, its own error swallowed
p1_updateJobFailed(w) ==
    /\ pc[w] = "p1_updateJobFailed"
    /\ \E ok \in StoreOk :
         IF ~ok
         THEN /\ errs' = errs + 1
              /\ UNCHANGED social_jobs
         ELSE /\ errs' = errs
              /\ social_jobs' =
                   [social_jobs EXCEPT ![job[w].id].status = "failed",
                                       ![job[w].id].last_error = "error",
                                       ![job[w].id].last_trace_id = w]
    /\ pc' = [pc EXCEPT ![w] = "p1_rethrow"]
    /\ UNCHANGED <<now, social_outputs, job, tmp, hist>>
    /\ UNCHANGED p1_frame

\* line 441, throw err, caught by runLoop at line 547
p1_rethrow(w) ==
    /\ pc[w] = "p1_rethrow"
    /\ pc' = [pc EXCEPT ![w] = "p1_sleep_error"]
    /\ UNCHANGED <<now, errs, social_jobs, social_outputs, job, tmp, hist>>
    /\ UNCHANGED p1_frame

\* markDone(job.id), lines 475-483, called at line 545
p1_markDone(w) ==
    /\ pc[w] = "p1_markDone"
    /\ \E ok \in StoreOk :
         IF ~ok
         THEN /\ errs' = errs + 1
              /\ pc' = [pc EXCEPT ![w] = "p1_sleep_error"]
              /\ UNCHANGED social_jobs
         ELSE /\ errs' = errs
              /\ social_jobs' =
                   IF social_jobs[job[w].id].locked_by = w
                   THEN [social_jobs EXCEPT ![job[w].id].status = "done",
                                            ![job[w].id].locked_at = NULL_AT,
                                            ![job[w].id].locked_by = NULL]
                   ELSE social_jobs
              /\ pc' = [pc EXCEPT ![w] = "p1_claim"]
    /\ UNCHANGED <<now, social_outputs, job, tmp, hist>>
    /\ UNCHANGED p1_frame

\* line 541: the reason runLoop hands to markFailed; the handler returns
\* only { ok: true } (line 431) or throws, so line 536 is not reached
p1_reason(jb) == "unknown_job_type:" \o jb.job_type

\* markFailed(job, reason), lines 485-514, called at line 541: the reason
\* goes into the payload built from the claimed row (lines 491-495); the
\* column last_error is not written
p1_markFailed(w) ==
    /\ pc[w] = "p1_markFailed"
    /\ LET attempts == job[w].attempts + 1
           nextStatus == IF attempts >= job[w].max_attempts
                         THEN "failed" ELSE "queued"
       IN  \E ok \in StoreOk :
             IF ~ok
             THEN /\ errs' = errs + 1
                  /\ pc' = [pc EXCEPT ![w] = "p1_sleep_error"]
                  /\ UNCHANGED social_jobs
             ELSE /\ errs' = errs
                  /\ social_jobs' =
                       IF social_jobs[job[w].id].locked_by = w
                       THEN [social_jobs EXCEPT
                               ![job[w].id].status = nextStatus,
                               ![job[w].id].attempts = attempts,
                               ![job[w].id].payload =
                                   [job[w].payload EXCEPT
                                      !.last_error = p1_reason(job[w]),
                                      !.last_error_at = now],
                               ![job[w].id].locked_at = NULL_AT,
                               ![job[w].id].locked_by = NULL]
                       ELSE social_jobs
                  /\ pc' = [pc EXCEPT ![w] =
                              IF nextStatus = "queued" THEN "p1_backoff"
                              ELSE "p1_claim"]
    /\ UNCHANGED <<now, social_outputs, job, tmp, hist>>
    /\ UNCHANGED p1_frame

\* sleep(SLEEP_IDLE_MS), sleep(SLEEP_ERROR_MS) or sleep(backoffMs) returns
p1_sleep(w) ==
    /\ pc[w] \in {"p1_sleep_idle", "p1_sleep_error", "p1_backoff"}
    /\ pc' = [pc EXCEPT ![w] = "p1_claim"]
    /\ job' = [job EXCEPT ![w] = NoJob]
    /\ UNCHANGED <<now, errs, social_jobs, social_outputs, tmp, hist>>
    /\ UNCHANGED p1_frame

p1_step(w) ==
    \/ p1_claimNext(w)
    \/ p1_dispatch(w)
    \/ p1_updateJobStart_select(w)
    \/ p1_updateJobStart_update(w)
    \/ p1_activity(w)
    \/ p1_getVerticalProfile(w)
    \/ p1_getVerticalProfile_general(w)
    \/ p1_callOpenAI(w)
    \/ p1_insertSocialOutput(w)
    \/ p1_updateJobDone(w)
    \/ p1_updateJobFailed(w)
    \/ p1_rethrow(w)
    \/ p1_markDone(w)
    \/ p1_markFailed(w)
    \/ p1_sleep(w)

\* a row of social_jobs as the producer creates it; payload holds the fields
\* markFailed adds
p1_row(j, type, max, activity) ==
    [id |-> j, job_type |-> type, activity_id |-> activity,
     status |-> "queued", attempts |-> 0, max_attempts |-> max,
     locked_at |-> NULL_AT, locked_by |-> NULL, created_at |-> created_at(j),
     last_error |-> NULL, last_trace_id |-> NULL,
     payload |-> [last_error |-> NULL, last_error_at |-> NULL_AT]]

p1_Init ==
    /\ now = StartTime
    /\ ticks = 0
    /\ errs = MaxStoreErrors   \* the store answers every call
    /\ mayCrash = {}
    /\ social_queue = <<>>
    /\ \E c \in {<<"generate_assets", "a2">>, <<"generate_assets", "a9">>,
                  <<"generate_assets", "">>, <<"generate_assets", NULL>>,
                  <<"other", "a2">>} :
         social_jobs = [j \in JobIds |->
                          IF j = "j1" THEN p1_row(j, "generate_assets", 2, "a1")
                          ELSE p1_row(j, c[1], 2, c[2])]
    /\ \E u \in BOOLEAN : social_outputs = [unique_index |-> u, rows |-> <<>>]
    /\ pc = [w \in Workers |-> IF w \in {"w1", "w2"} THEN "p1_claim" ELSE "off"]
    /\ job = [w \in Workers |-> NoJob]
    /\ \E dry \in p1_DryRunSettings :
         cand = [w \in Workers |-> IF w = "w1" THEN dry ELSE NULL]
    /\ lastStuckSweep = [w \in Workers |-> 0]
    /\ tmp = [w \in Workers |-> NULL]
    /\ hist = <<>>

p1_Next ==
    \/ \E w \in Workers : p1_step(w)
    \/ Tick

SpecP1 == p1_Init /\ [][p1_Next]_vars

\* C10: when the handler of part_001 has thrown for the job a worker claimed
\* (and no reap has run since), the row has one attempt more than the
\* claimed row; if that is below max_attempts the row is queued with
\* locked_by and locked_at cleared; it is failed only if attempts has
\* reached max_attempts.
C10_HandlerThrowRetriesBelowMax ==
    \A w \in Workers :
        (pc[w] = "p1_rethrow" /\ ticks = 0) =>
            LET row == social_jobs[job[w].id]
            IN  /\ row.attempts = job[w].attempts + 1
                /\ row.attempts < row.max_attempts =>
                     /\ row.status = "queued"
                     /\ row.locked_by = NULL
                     /\ row.locked_at = NULL_AT
                /\ row.status = "failed" => row.attempts >= row.max_attempts

(***************************************************************************)
(* The two backoffMs functions, applied to bounded inputs: tmp holds the   *)
(* inputs (BACKOFF_BASE_MS as configured and an attempt count) and, once   *)
(* applied, the delays for that count and the next one.                    *)
(***************************************************************************)
MaxAttempt == 14      \* largest attempt count given to backoffMs

BackoffBases == {0, 1, 2500, 10000, 30000, 40000}

bk_frame == <<now, ticks, errs, mayCrash, social_queue, social_jobs,
              social_outputs, job, cand, lastStuckSweep, hist>>

bk_Init ==
    /\ now = StartTime
    /\ ticks = 0
    /\ errs = MaxStoreErrors
    /\ mayCrash = {}
    /\ social_queue = <<>>
    /\ social_jobs = <<>>
    /\ social_outputs = {}
    /\ pc = [w \in Workers |-> IF w = "w1" THEN "bk_input" ELSE "off"]
    /\ job = [w \in Workers |-> NoJob]
    /\ cand = [w \in Workers |-> NULL]
    /\ lastStuckSweep = [w \in Workers |-> 0]
    /\ \E b \in BackoffBases, a \in 0 .. MaxAttempt :
         tmp = [base |-> b, attempts |-> a, sw |-> <<>>, loop |-> <<>>]
    /\ hist = <<>>

\* backoffMs of socialWorker.mjs on the input and on its successor
bk_sw ==
    /\ pc["w1"] = "bk_input"
    /\ tmp' = [tmp EXCEPT !.sw = <<sw_backoffMsWith(tmp.base, tmp.attempts),
                                  sw_backoffMsWith(tmp.base, tmp.attempts + 1)>>]
    /\ pc' = [pc EXCEPT !["w1"] = "bk_sw_done"]
    /\ UNCHANGED bk_frame

\* backoffMs of loop.ts on the input and on its successor
bk_loop ==
    /\ pc["w1"] = "bk_sw_done"
    /\ tmp' = [tmp EXCEPT !.loop = <<loop_backoffMsWith(tmp.base, tmp.attempts),
                                    loop_backoffMsWith(tmp.base, tmp.attempts + 1)>>]
    /\ pc' = [pc EXCEPT !["w1"] = "bk_done"]
    /\ UNCHANGED bk_frame

\* the next attempt count
bk_next ==
    /\ pc["w1"] = "bk_done"
    /\ tmp.attempts < MaxAttempt
    /\ tmp' = [tmp EXCEPT !.attempts = @ + 1, !.sw = <<>>, !.loop = <<>>]
    /\ pc' = [pc EXCEPT !["w1"] = "bk_input"]
    /\ UNCHANGED bk_frame

bk_Next == bk_sw \/ bk_loop \/ bk_next

SpecBackoff == bk_Init /\ [][bk_Next]_vars

\* C14: for both backoffMs functions and every non-negative base, the delay
\* never exceeds the cap of 30000 for an attempt count a >= 0, and for a >= 1
\* backoffMs(a) <= backoffMs(a + 1) <= 30000.
C14_BackoffMonotoneAndCapped ==
    pc["w1"] = "bk_done" =>
        /\ tmp.sw[1] <= 30000 /\ tmp.loop[1] <= 30000
        /\ tmp.attempts >= 1 =>
             /\ tmp.sw[1] <= tmp.sw[2] /\ tmp.sw[2] <= 30000
             /\ tmp.loop[1] <= tmp.loop[2] /\ tmp.loop[2] <= 30000

C14_Witness ==
    /\ pc["w1"] = "bk_done"
    /\ tmp.base = 2500 /\ tmp.attempts = 11
    /\ tmp.sw = <<27500, 30000>>
    /\ tmp.loop = <<30000, 30000>>

====
